---- MODULE Spec2Model ----
(***************************************************************************)
(* Model of the synchronization validation layer (layers/sync.cpp,         *)
(* layers/sync.h): the per-device Object Shadow Store (sync_device), the   *)
(* command log of every command buffer and the intercepted entry points    *)
(* that update them.  Outside the part on application threads every action *)
(* is one intercepted call, executed from its entry to its return with no  *)
(* other call in between.                                                  *)
(***************************************************************************)
EXTENDS Integers, Sequences, FiniteSets, TLC

(***************************************************************************)
(* Bounds of the model.                                                    *)
(***************************************************************************)
MaxPools == 2        \* command pool / descriptor pool handles the driver hands out
MaxCmdBufs == 2      \* command buffer handles the driver hands out
MaxCount == 2        \* length of a handle array passed to allocate / free
MaxLog == 2          \* commands recorded into one command buffer
MaxDescSets == 2     \* descriptor set handles the driver hands out
MaxLayouts == 1      \* descriptor set layout handles the driver hands out
MaxBinding == 1      \* largest binding number of a layout or a write
MaxDescCount == 2    \* largest descriptorCount of a layout binding
MaxFew == 1          \* handles of a kind in the runs that need few of them
MaxPoolBinding == 0  \* largest binding number of a layout in the runs on pools
MaxPoolDescCount == 1 \* largest descriptorCount of a layout in the runs on pools
MaxThreads == 2      \* application threads calling into the layer
MaxReports == 12     \* the reports of a submission a sink may single out
MaxAllReports == 120 \* reports of one submission
MaxGraphLog == 5     \* commands recorded into one command buffer in the runs on draws
MaxBatchLog == 3     \* commands recorded into the later command buffers of a batch
MaxSlots == 2        \* set layouts of a pipeline layout in the runs on descriptor set slots
MaxSetLog == 3       \* commands recorded into one command buffer in those runs
BindingBits == 2     \* bits of binding_id and of bindingCount in the runs on the overflow loop
MaxOverflowCount == 2 \* largest descriptorCount of a binding in those runs
IdBits == 4          \* width of a CommandId field (uint64_t in the source)

NoHandle == 0        \* VK_NULL_HANDLE

CommandPoolHandles == 1..MaxPools
CommandBufferHandles == 1..MaxCmdBufs
DescriptorPoolHandles == 1..MaxPools
DescriptorSetHandles == 1..MaxDescSets
DescriptorSetLayoutHandles == 1..MaxLayouts
FewHandles == 1..MaxFew

VARIABLES
    command_pools,          \* sync_device::command_pools    : handle -> sync_command_pool
    command_buffers,        \* sync_device::command_buffers  : handle -> sync_command_buffer
    descriptor_pools,       \* sync_device::descriptor_pools : handle -> sync_descriptor_pool
    descriptor_sets,        \* sync_device::descriptor_sets  : handle -> sync_descriptor_set
    descriptor_set_layouts, \* sync_device::descriptor_set_layouts
    device_memories,        \* sync_device::device_memories  : handle -> sync_device_memory
    nextMemoryUid,          \* sync_device::nextMemoryUid
    buffers,                \* sync_device::buffers          : handle -> sync_buffer
    buffer_views,           \* sync_device::buffer_views     : handle -> sync_buffer_view
    images,                 \* sync_device::images           : handle -> sync_image
    image_views,            \* sync_device::image_views      : handle -> sync_image_view
    reports,                \* reports handed to the Diagnostics Sink by the last call, in order
    last,                   \* the last intercepted call: its name, arguments, result
    fault,                  \* what the last call ran into: "none", "assert", "end_deref"
    halted,                 \* the process was terminated (failed assert, crash)
    graphics_pipelines,              \* sync_device::graphics_pipelines        : handle -> sync_graphics_pipeline
    pipeline_layouts,       \* sync_device::pipeline_layouts : handle -> sync_pipeline_layout
    sync_mutex,             \* layer_device_data::sync_mutex : the thread holding it, or NoThread
    g_layer_map_mutex,      \* the mutex of the two registries : the thread holding it, or NoThread
    threads,                \* each application thread's position inside an intercepted call
    access,                 \* the last read or write of the store or of a log, and its thread
    ids                     \* CommandId values handed to CommandId::operator<

cmdVars == <<command_pools, command_buffers>>
descVars == <<descriptor_pools, descriptor_sets, descriptor_set_layouts>>
viewVars == <<buffer_views, images, image_views>>
memVars == <<device_memories, nextMemoryUid, buffers, viewVars>>
pipeVars == <<graphics_pipelines, pipeline_layouts>>
lockVars == <<sync_mutex, g_layer_map_mutex, threads, access>>
otherVars == <<pipeVars, lockVars, ids>>
vars == <<command_pools, command_buffers, descriptor_pools, descriptor_sets,
          descriptor_set_layouts, device_memories, nextMemoryUid, buffers,
          buffer_views, images, image_views, reports, last, fault, halted, graphics_pipelines, pipeline_layouts,
          sync_mutex, g_layer_map_mutex, threads, access, ids>>

(***************************************************************************)
(* std::map helpers.                                                       *)
(***************************************************************************)
EmptyMap == [x \in {} |-> NoHandle]

\* std::map::insert: the element is inserted only if the key is not present
MapInsert(m, k, v) ==
    IF k \in DOMAIN m THEN m
    ELSE [x \in (DOMAIN m) \cup {k} |-> IF x = k THEN v ELSE m[x]]

\* std::map::erase(key)
MapErase(m, k) == [x \in (DOMAIN m) \ {k} |-> m[x]]

\* The handle arrays an application passes (no handle twice)
HandleArrays(S) ==
    {s \in UNION {[1..n -> S] : n \in 1..MaxCount} :
        \A i, j \in 1..Len(s) : i # j => s[i] # s[j]}

(***************************************************************************)
(* Diagnostics Sink.  log_msg hands one report to the sink and returns     *)
(* the sink's answer (true: the call should be aborted).  A sink is the    *)
(* set of positions, in the order of the reports of one call, at which it  *)
(* answers true.                                                           *)
(***************************************************************************)
Sinks == SUBSET (1..(MaxCount + 1))

SinkAnswer(sink, n) == n \in sink

\* _LOG_GENERIC ignores its level argument and passes VK_DEBUG_REPORT_DEBUG_BIT_EXT
LogGeneric(reps, level, code, msg, sink) ==
    Append(reps, [level |-> level, flag |-> "DEBUG", code |-> code, msg |-> msg,
                  abort |-> SinkAnswer(sink, Len(reps) + 1)])

LOG_DEBUG(reps, msg, sink) == LogGeneric(reps, "DEBUG", "SYNC_MSG_NONE", msg, sink)
LOG_INFO(reps, msg, sink) == LogGeneric(reps, "INFO", "SYNC_MSG_NONE", msg, sink)
LOG_ERROR(reps, code, msg, sink) == LogGeneric(reps, "ERROR", code, msg, sink)

\* the answer log_msg returned for the report just appended
Aborted(reps) == reps[Len(reps)].abort

\* The record of a call: entry point, pool argument, handle array, other
\* arguments, return value, and whether the call was passed down to the driver.
\* `arg` holds, for a create or allocate call, the result the driver returned;
\* for vkResetCommandBuffer, the record the buffer had when the call came in; for
\* the destruction of a pool, the children the pool had when the call came in.
Call(op, pool, hs, arg, ret, fwd) ==
    [op |-> op, pool |-> pool, hs |-> hs, arg |-> arg, ret |-> ret, fwd |-> fwd]

(***************************************************************************)
(* sync_command_buffer                                                     *)
(***************************************************************************)
\* A reset that forgets commands.clear(): C1 tells it from reset
reset_KeepsCommands(buf) == [buf EXCEPT !.state = "INITIAL"]

\* sync_command_buffer::reset
reset(buf) == [buf EXCEPT !.state = "INITIAL", !.commands = <<>>]

\* sync_device::sync_device and the empty maps of a new layer_device_data
\* Application threads; NoThread owns an unlocked mutex
NoThread == 0
Threads == 1..MaxThreads

\* A thread outside every intercepted call
NoOutcome == [reps |-> <<>>, ret |-> "void", fwd |-> FALSE, flt |-> "none", ptr |-> "null"]

IdleThread ==
    [pc |-> "idle", op |-> "none", h |-> NoHandle, arg |-> <<>>, sink |-> {},
     out |-> NoOutcome]

NoAccess == [thread |-> NoThread, op |-> "none", object |-> {}, locked |-> TRUE, with |-> {}]

\* The device after vkCreateDevice: an empty store, an unlocked mutex
InitDevice ==
    /\ command_pools = EmptyMap
    /\ command_buffers = EmptyMap
    /\ descriptor_pools = EmptyMap
    /\ descriptor_sets = EmptyMap
    /\ descriptor_set_layouts = EmptyMap
    /\ device_memories = EmptyMap
    /\ nextMemoryUid = 0
    /\ buffers = EmptyMap
    /\ buffer_views = EmptyMap
    /\ images = EmptyMap
    /\ image_views = EmptyMap
    /\ graphics_pipelines = EmptyMap
    /\ pipeline_layouts = EmptyMap
    /\ sync_mutex = NoThread
    /\ g_layer_map_mutex = NoThread
    /\ threads = [t \in Threads |-> IdleThread]
    /\ access = NoAccess
    /\ reports = <<>>
    /\ last = Call("none", NoHandle, <<>>, <<>>, "VK_SUCCESS", FALSE)
    /\ fault = "none"
    /\ halted = FALSE

Init ==
    /\ InitDevice
    /\ ids = <<>>

\* How a call ends: `flt` is "none", "assert" (an assert() of the handler failed:
\* the process aborts when assertions are compiled in and carries on under NDEBUG)
\* or "end_deref" (the handler used it->second of an end() iterator: undefined
\* behaviour, the process crashes or carries on).
Finish(op, pool, hs, arg, o) ==
    /\ reports' = o.reps
    /\ last' = Call(op, pool, hs, arg, o.ret, o.fwd)
    /\ fault' = o.flt
    /\ halted' \in (IF o.flt = "none" THEN {FALSE} ELSE {TRUE, FALSE})

DriverResults == {"VK_SUCCESS", "VK_ERROR_OUT_OF_HOST_MEMORY"}

(***************************************************************************)
(* Command pools                                                           *)
(***************************************************************************)
CreateCommandPool(pools, cbs, pCommandPool, result, sink) ==
    LET r1 == LOG_DEBUG(<<>>, "vkCreateCommandPool", sink)
        inserted == pCommandPool \notin DOMAIN pools
        r2 == IF inserted THEN r1
              ELSE LOG_ERROR(r1, "SYNC_MSG_INTERNAL_ERROR", "new pool already exists", sink)
        same == [pools |-> pools, cbs |-> cbs, flt |-> "none"]
    IN  IF Aborted(r1)
        THEN same @@ [reps |-> r1, ret |-> "VK_ERROR_VALIDATION_FAILED_EXT", fwd |-> FALSE]
        ELSE IF result # "VK_SUCCESS"
        THEN same @@ [reps |-> r1, ret |-> result, fwd |-> TRUE]
        ELSE [pools |-> MapInsert(pools, pCommandPool,
                            [command_pool |-> pCommandPool, command_buffers |-> {}]),
              cbs |-> cbs, flt |-> "none", reps |-> r2, fwd |-> TRUE,
              ret |-> IF ~inserted /\ Aborted(r2)
                      THEN "VK_ERROR_VALIDATION_FAILED_EXT" ELSE result]

DestroyCommandPool(pools, cbs, commandPool, sink) ==
    LET r1 == LOG_DEBUG(<<>>, "vkDestroyCommandPool", sink)
        r2 == LOG_ERROR(r1, "SYNC_MSG_INVALID_PARAM", "unknown commandPool", sink)
        same == [pools |-> pools, cbs |-> cbs, flt |-> "none", ret |-> "void"]
    IN  IF Aborted(r1)
        THEN same @@ [reps |-> r1, fwd |-> FALSE]
        ELSE IF commandPool \notin DOMAIN pools
        THEN same @@ [reps |-> r2, fwd |-> ~Aborted(r2)]
        ELSE LET children == pools[commandPool].command_buffers
             IN  \* every child is erased from the device's map; assert(removed == 1)
                 [pools |-> MapErase(pools, commandPool),
                  cbs |-> [c \in (DOMAIN cbs) \ children |-> cbs[c]],
                  flt |-> IF children \subseteq DOMAIN cbs THEN "none" ELSE "assert",
                  reps |-> r1, ret |-> "void", fwd |-> TRUE]

ResetCommandPool(pools, cbs, commandPool, sink) ==
    LET r1 == LOG_DEBUG(<<>>, "vkResetCommandPool", sink)
        r2 == LOG_ERROR(r1, "SYNC_MSG_INVALID_PARAM", "unknown commandPool", sink)
        same == [pools |-> pools, cbs |-> cbs, flt |-> "none"]
    IN  IF Aborted(r1)
        THEN same @@ [reps |-> r1, ret |-> "VK_ERROR_VALIDATION_FAILED_EXT", fwd |-> FALSE]
        ELSE IF commandPool \notin DOMAIN pools
        THEN same @@ [reps |-> r2, fwd |-> ~Aborted(r2),
                      ret |-> IF Aborted(r2) THEN "VK_ERROR_VALIDATION_FAILED_EXT"
                              ELSE "VK_SUCCESS"]
        ELSE LET children == pools[commandPool].command_buffers
             IN  \* assert(it2 != end()); it2->second.reset()
                 [pools |-> pools,
                  cbs |-> [c \in DOMAIN cbs |->
                              IF c \in children THEN reset(cbs[c]) ELSE cbs[c]],
                  flt |-> IF children \subseteq DOMAIN cbs THEN "none" ELSE "assert",
                  reps |-> r1, ret |-> "VK_SUCCESS", fwd |-> TRUE]

\* A command buffer as vkAllocateCommandBuffers builds it
NewCommandBuffer(h, pool) ==
    reset([command_buffer |-> h, command_pool |-> pool,
           state |-> "INITIAL", commands |-> <<>>])

\* One round of the loop of vkAllocateCommandBuffers, for pCommandBuffers[i]
RECURSIVE AllocateCommandBuffersLoop(_, _, _, _, _)
AllocateCommandBuffersLoop(i, hs, pool, sink, st) ==
    IF i > Len(hs) THEN st
    ELSE LET h == hs[i]
             inserted == h \notin DOMAIN st.cbs
             r == IF inserted THEN st.reps
                  ELSE LOG_ERROR(st.reps, "SYNC_MSG_INTERNAL_ERROR",
                                 "new buffer already exists", sink)
             inserted2 == h \notin st.pools[pool].command_buffers
         IN  AllocateCommandBuffersLoop(i + 1, hs, pool, sink,
                [pools |-> [st.pools EXCEPT ![pool].command_buffers = @ \cup {h}],
                 cbs |-> MapInsert(st.cbs, h, NewCommandBuffer(h, pool)),
                 reps |-> r,
                 ret |-> IF ~inserted /\ Aborted(r)
                         THEN "VK_ERROR_VALIDATION_FAILED_EXT" ELSE st.ret,
                 flt |-> IF inserted2 THEN st.flt ELSE "assert",
                 fwd |-> TRUE])

AllocateCommandBuffers(pools, cbs, commandPool, pCommandBuffers, result, sink) ==
    LET r1 == LOG_DEBUG(<<>>, "vkAllocateCommandBuffers", sink)
        r2 == LOG_ERROR(r1, "SYNC_MSG_INVALID_PARAM", "unknown commandPool", sink)
        same == [pools |-> pools, cbs |-> cbs, flt |-> "none"]
    IN  IF Aborted(r1)
        THEN same @@ [reps |-> r1, ret |-> "VK_ERROR_VALIDATION_FAILED_EXT", fwd |-> FALSE]
        ELSE IF result # "VK_SUCCESS"
        THEN same @@ [reps |-> r1, ret |-> result, fwd |-> TRUE]
        ELSE IF commandPool \notin DOMAIN pools
        THEN same @@ [reps |-> r2, fwd |-> TRUE,
                      ret |-> IF Aborted(r2) THEN "VK_ERROR_VALIDATION_FAILED_EXT"
                              ELSE result]
        ELSE AllocateCommandBuffersLoop(1, pCommandBuffers, commandPool, sink,
                same @@ [reps |-> r1, ret |-> result, fwd |-> TRUE])

\* One round of the loop of vkFreeCommandBuffers, for pCommandBuffers[i]
RECURSIVE FreeCommandBuffersLoop(_, _, _, _, _)
FreeCommandBuffersLoop(i, hs, pool, sink, st) ==
    IF i > Len(hs) THEN st
    ELSE LET h == hs[i]
             removed == h \in st.pools[pool].command_buffers
             pools2 == [st.pools EXCEPT ![pool].command_buffers = @ \ {h}]
             r == LOG_ERROR(st.reps, "SYNC_MSG_INVALID_PARAM",
                            "unknown pCommandBuffers[i]", sink)
         IN  IF ~removed
             THEN IF Aborted(r)
                  THEN [st EXCEPT !.reps = r, !.fwd = FALSE]
                  ELSE FreeCommandBuffersLoop(i + 1, hs, pool, sink, [st EXCEPT !.reps = r])
             ELSE FreeCommandBuffersLoop(i + 1, hs, pool, sink,
                    [st EXCEPT !.pools = pools2,
                               !.cbs = MapErase(st.cbs, h),
                               !.flt = IF h \in DOMAIN st.cbs THEN st.flt ELSE "assert"])

\* A vkFreeCommandBuffers that erases from the pool's set only and leaves the
\* device's map alone: C3 tells it from FreeCommandBuffers
FreeCommandBuffers_PoolOnly(pools, cbs, commandPool, pCommandBuffers, sink) ==
    LET r1 == LOG_DEBUG(<<>>, "vkFreeCommandBuffers", sink)
        r2 == LOG_ERROR(r1, "SYNC_MSG_INVALID_PARAM", "unknown commandPool", sink)
        same == [pools |-> pools, cbs |-> cbs, flt |-> "none", ret |-> "void"]
    IN  IF Aborted(r1)
        THEN same @@ [reps |-> r1, fwd |-> FALSE]
        ELSE IF commandPool \notin DOMAIN pools
        THEN same @@ [reps |-> r2, fwd |-> ~Aborted(r2)]
        ELSE [FreeCommandBuffersLoop(1, pCommandBuffers, commandPool, sink,
                  same @@ [reps |-> r1, fwd |-> TRUE]) EXCEPT !.cbs = cbs]

FreeCommandBuffers(pools, cbs, commandPool, pCommandBuffers, sink) ==
    LET r1 == LOG_DEBUG(<<>>, "vkFreeCommandBuffers", sink)
        r2 == LOG_ERROR(r1, "SYNC_MSG_INVALID_PARAM", "unknown commandPool", sink)
        same == [pools |-> pools, cbs |-> cbs, flt |-> "none", ret |-> "void"]
    IN  IF Aborted(r1)
        THEN same @@ [reps |-> r1, fwd |-> FALSE]
        ELSE IF commandPool \notin DOMAIN pools
        THEN same @@ [reps |-> r2, fwd |-> ~Aborted(r2)]
        ELSE FreeCommandBuffersLoop(1, pCommandBuffers, commandPool, sink,
                same @@ [reps |-> r1, fwd |-> TRUE])

(***************************************************************************)
(* Command buffers: begin, end, reset                                      *)
(***************************************************************************)
\* vkBeginCommandBuffer, vkEndCommandBuffer and vkResetCommandBuffer: trace, find,
\* unknown-handle report, then the update of it->second.  When the handle is
\* unknown and the sink answers false the code goes on to it->second with
\* it == end().
\* buf.reset(); buf.state = RECORDING
BeginUpdate(buf) == [reset(buf) EXCEPT !.state = "RECORDING"]

\* the state the buffer is in is not looked at
BeginCommandBuffer(cbs, commandBuffer, sink) ==
    LET r1 == LOG_DEBUG(<<>>, "vkBeginCommandBuffer", sink)
        r2 == LOG_ERROR(r1, "SYNC_MSG_INVALID_PARAM", "unknown commandBuffer", sink)
        failed == [cbs |-> cbs, flt |-> "none", fwd |-> FALSE,
                   ret |-> "VK_ERROR_VALIDATION_FAILED_EXT"]
    IN  IF Aborted(r1) THEN failed @@ [reps |-> r1]
        ELSE IF commandBuffer \notin DOMAIN cbs
        THEN IF Aborted(r2) THEN failed @@ [reps |-> r2]
             ELSE [cbs |-> cbs, flt |-> "end_deref", fwd |-> TRUE,
                   ret |-> "VK_SUCCESS", reps |-> r2]
        ELSE [cbs |-> [cbs EXCEPT ![commandBuffer] = BeginUpdate(@)],
              flt |-> "none", fwd |-> TRUE, ret |-> "VK_SUCCESS", reps |-> r1]

\* it->second.state = EXECUTABLE
EndUpdate(buf) == [buf EXCEPT !.state = "EXECUTABLE"]

\* the state the buffer is in is not looked at
EndCommandBuffer(cbs, commandBuffer, sink) ==
    LET r1 == LOG_DEBUG(<<>>, "vkEndCommandBuffer", sink)
        r2 == LOG_ERROR(r1, "SYNC_MSG_INVALID_PARAM", "unknown commandBuffer", sink)
        failed == [cbs |-> cbs, flt |-> "none", fwd |-> FALSE,
                   ret |-> "VK_ERROR_VALIDATION_FAILED_EXT"]
    IN  IF Aborted(r1) THEN failed @@ [reps |-> r1]
        ELSE IF commandBuffer \notin DOMAIN cbs
        THEN IF Aborted(r2) THEN failed @@ [reps |-> r2]
             ELSE [cbs |-> cbs, flt |-> "end_deref", fwd |-> TRUE,
                   ret |-> "VK_SUCCESS", reps |-> r2]
        ELSE [cbs |-> [cbs EXCEPT ![commandBuffer] = EndUpdate(@)],
              flt |-> "none", fwd |-> TRUE, ret |-> "VK_SUCCESS", reps |-> r1]

\* it->second.reset()
ResetCommandBuffer(cbs, commandBuffer, sink) ==
    LET r1 == LOG_DEBUG(<<>>, "vkResetCommandBuffer", sink)
        r2 == LOG_ERROR(r1, "SYNC_MSG_INVALID_PARAM", "unknown commandBuffer", sink)
        failed == [cbs |-> cbs, flt |-> "none", fwd |-> FALSE,
                   ret |-> "VK_ERROR_VALIDATION_FAILED_EXT"]
    IN  IF Aborted(r1) THEN failed @@ [reps |-> r1]
        ELSE IF commandBuffer \notin DOMAIN cbs
        THEN IF Aborted(r2) THEN failed @@ [reps |-> r2]
             ELSE [cbs |-> cbs, flt |-> "end_deref", fwd |-> TRUE,
                   ret |-> "VK_SUCCESS", reps |-> r2]
        ELSE [cbs |-> [cbs EXCEPT ![commandBuffer] = reset(@)],
              flt |-> "none", fwd |-> TRUE, ret |-> "VK_SUCCESS", reps |-> r1]

(***************************************************************************)
(* Command recording                                                       *)
(***************************************************************************)
\* get_sync_command_buffer: nullptr ("null"), &it->second of a record ("record")
\* or &it->second of the end() iterator ("end")
get_sync_command_buffer(cbs, commandBuffer, func, sink) ==
    LET r1 == LOG_DEBUG(<<>>, func, sink)
        r2 == LOG_ERROR(r1, "SYNC_MSG_INVALID_PARAM", "unknown commandBuffer", sink)
    IN  IF Aborted(r1) THEN [ptr |-> "null", reps |-> r1]
        ELSE IF commandBuffer \notin DOMAIN cbs
        THEN IF Aborted(r2) THEN [ptr |-> "null", reps |-> r2]
             ELSE [ptr |-> "end", reps |-> r2]
        ELSE [ptr |-> "record", reps |-> r1]

\* A record call that puts the command first in the log: C22 tells it from
\* RecordCommand
RecordCommand_Front(cbs, commandBuffer, func, cmd, sink) ==
    LET g == get_sync_command_buffer(cbs, commandBuffer, func, sink)
    IN  IF g.ptr = "null"
        THEN [cbs |-> cbs, flt |-> "none", fwd |-> FALSE, ret |-> "void", reps |-> g.reps]
        ELSE IF g.ptr = "end"
        THEN [cbs |-> cbs, flt |-> "end_deref", fwd |-> TRUE, ret |-> "void",
              reps |-> g.reps]
        ELSE [cbs |-> [cbs EXCEPT ![commandBuffer].commands = <<cmd>> \o @],
              flt |-> "none", fwd |-> TRUE, ret |-> "void", reps |-> g.reps]

\* The body shared by every vkCmd* entry point:
\* buf = get_sync_command_buffer(); if (!buf) return; buf->commands.emplace_back(cmd)
RecordCommand(cbs, commandBuffer, func, cmd, sink) ==
    LET g == get_sync_command_buffer(cbs, commandBuffer, func, sink)
    IN  IF g.ptr = "null"
        THEN [cbs |-> cbs, flt |-> "none", fwd |-> FALSE, ret |-> "void", reps |-> g.reps]
        ELSE IF g.ptr = "end"
        THEN [cbs |-> cbs, flt |-> "end_deref", fwd |-> TRUE, ret |-> "void",
              reps |-> g.reps]
        ELSE [cbs |-> [cbs EXCEPT ![commandBuffer].commands = Append(@, cmd)],
              flt |-> "none", fwd |-> TRUE, ret |-> "void", reps |-> g.reps]

(***************************************************************************)
(* Descriptor set layouts                                                  *)
(***************************************************************************)
\* `bindings` is pCreateInfo->pBindings: a sequence of
\* [binding, descriptorType, descriptorCount, stageFlags]
CreateDescriptorSetLayout(layouts, pSetLayout, bindings, result, sink) ==
    LET r1 == LOG_DEBUG(<<>>, "vkCreateDescriptorSetLayout", sink)
        inserted == pSetLayout \notin DOMAIN layouts
        r2 == IF inserted THEN r1
              ELSE LOG_ERROR(r1, "SYNC_MSG_INTERNAL_ERROR",
                             "new descriptor set layout already exists", sink)
        same == [layouts |-> layouts, flt |-> "none"]
    IN  IF Aborted(r1)
        THEN same @@ [reps |-> r1, ret |-> "VK_ERROR_VALIDATION_FAILED_EXT", fwd |-> FALSE]
        ELSE IF result # "VK_SUCCESS"
        THEN same @@ [reps |-> r1, ret |-> result, fwd |-> TRUE]
        ELSE [layouts |-> MapInsert(layouts, pSetLayout,
                            [descriptor_set_layout |-> pSetLayout, bindings |-> bindings]),
              flt |-> "none", reps |-> r2, fwd |-> TRUE,
              ret |-> IF ~inserted /\ Aborted(r2)
                      THEN "VK_ERROR_VALIDATION_FAILED_EXT" ELSE result]

DestroyDescriptorSetLayout(layouts, descriptorSetLayout, sink) ==
    LET r1 == LOG_DEBUG(<<>>, "vkDestroyDescriptorSetLayout", sink)
        r2 == LOG_ERROR(r1, "SYNC_MSG_INVALID_PARAM", "unknown descriptorSetLayout", sink)
        same == [layouts |-> layouts, flt |-> "none", ret |-> "void"]
    IN  IF Aborted(r1)
        THEN same @@ [reps |-> r1, fwd |-> FALSE]
        ELSE IF descriptorSetLayout \notin DOMAIN layouts
        THEN same @@ [reps |-> r2, fwd |-> ~Aborted(r2)]
        ELSE [layouts |-> MapErase(layouts, descriptorSetLayout),
              flt |-> "none", ret |-> "void", reps |-> r1, fwd |-> TRUE]

(***************************************************************************)
(* Descriptor pools and descriptor sets                                    *)
(***************************************************************************)
CreateDescriptorPool(dpools, dsets, pDescriptorPool, result, sink) ==
    LET r1 == LOG_DEBUG(<<>>, "vkCreateDescriptorPool", sink)
        inserted == pDescriptorPool \notin DOMAIN dpools
        r2 == IF inserted THEN r1
              ELSE LOG_ERROR(r1, "SYNC_MSG_INTERNAL_ERROR", "new pool already exists", sink)
        same == [dpools |-> dpools, dsets |-> dsets, flt |-> "none"]
    IN  IF Aborted(r1)
        THEN same @@ [reps |-> r1, ret |-> "VK_ERROR_VALIDATION_FAILED_EXT", fwd |-> FALSE]
        ELSE IF result # "VK_SUCCESS"
        THEN same @@ [reps |-> r1, ret |-> result, fwd |-> TRUE]
        ELSE [dpools |-> MapInsert(dpools, pDescriptorPool,
                            [descriptor_pool |-> pDescriptorPool, descriptor_sets |-> {}]),
              dsets |-> dsets, flt |-> "none", reps |-> r2, fwd |-> TRUE,
              ret |-> IF ~inserted /\ Aborted(r2)
                      THEN "VK_ERROR_VALIDATION_FAILED_EXT" ELSE result]

\* A vkDestroyDescriptorPool without the loop over the pool's sets: C2 tells it
\* from DestroyDescriptorPool
DestroyDescriptorPool_PoolOnly(dpools, dsets, descriptorPool, sink) ==
    LET r1 == LOG_DEBUG(<<>>, "vkDestroyDescriptorPool", sink)
        r2 == LOG_ERROR(r1, "SYNC_MSG_INVALID_PARAM", "unknown descriptorPool", sink)
        same == [dpools |-> dpools, dsets |-> dsets, flt |-> "none", ret |-> "void"]
    IN  IF Aborted(r1)
        THEN same @@ [reps |-> r1, fwd |-> FALSE]
        ELSE IF descriptorPool \notin DOMAIN dpools
        THEN same @@ [reps |-> r2, fwd |-> ~Aborted(r2)]
        ELSE [dpools |-> MapErase(dpools, descriptorPool), dsets |-> dsets,
              flt |-> "none", reps |-> r1, ret |-> "void", fwd |-> TRUE]

DestroyDescriptorPool(dpools, dsets, descriptorPool, sink) ==
    LET r1 == LOG_DEBUG(<<>>, "vkDestroyDescriptorPool", sink)
        r2 == LOG_ERROR(r1, "SYNC_MSG_INVALID_PARAM", "unknown descriptorPool", sink)
        same == [dpools |-> dpools, dsets |-> dsets, flt |-> "none", ret |-> "void"]
    IN  IF Aborted(r1)
        THEN same @@ [reps |-> r1, fwd |-> FALSE]
        ELSE IF descriptorPool \notin DOMAIN dpools
        THEN same @@ [reps |-> r2, fwd |-> ~Aborted(r2)]
        ELSE LET children == dpools[descriptorPool].descriptor_sets
             IN  \* every child is erased from the device's map; assert(removed == 1)
                 [dpools |-> MapErase(dpools, descriptorPool),
                  dsets |-> [d \in (DOMAIN dsets) \ children |-> dsets[d]],
                  flt |-> IF children \subseteq DOMAIN dsets THEN "none" ELSE "assert",
                  reps |-> r1, ret |-> "void", fwd |-> TRUE]

\* The sets of the pool are erased from the device's map; the pool's own
\* descriptor_sets is left as it is
ResetDescriptorPool(dpools, dsets, descriptorPool, sink) ==
    LET r1 == LOG_DEBUG(<<>>, "vkResetDescriptorPool", sink)
        r2 == LOG_ERROR(r1, "SYNC_MSG_INVALID_PARAM", "unknown descriptorPool", sink)
        same == [dpools |-> dpools, dsets |-> dsets, flt |-> "none"]
    IN  IF Aborted(r1)
        THEN same @@ [reps |-> r1, ret |-> "VK_ERROR_VALIDATION_FAILED_EXT", fwd |-> FALSE]
        ELSE IF descriptorPool \notin DOMAIN dpools
        THEN same @@ [reps |-> r2, fwd |-> ~Aborted(r2),
                      ret |-> IF Aborted(r2) THEN "VK_ERROR_VALIDATION_FAILED_EXT"
                              ELSE "VK_SUCCESS"]
        ELSE LET children == dpools[descriptorPool].descriptor_sets
             IN  [dpools |-> dpools,
                  dsets |-> [d \in (DOMAIN dsets) \ children |-> dsets[d]],
                  flt |-> IF children \subseteq DOMAIN dsets THEN "none" ELSE "assert",
                  reps |-> r1, ret |-> "VK_SUCCESS", fwd |-> TRUE]

\* A descriptor as std::vector::resize value-initialises it, with valid = false
NewDescriptor ==
    [valid |-> FALSE, imageInfo |-> NoHandle, bufferInfo |-> NoHandle,
     bufferView |-> NoHandle]

\* descriptor_set.bindings as the loop over layout->second.bindings fills it:
\* one descriptor_array per declared binding number (the last declaration of a
\* number decides its type and size)
NewBindings(layout_bindings) ==
    LET numbers == {layout_bindings[k].binding : k \in 1..Len(layout_bindings)}
        decl(b) == layout_bindings[CHOOSE k \in 1..Len(layout_bindings) :
                        /\ layout_bindings[k].binding = b
                        /\ \A m \in 1..Len(layout_bindings) :
                              layout_bindings[m].binding = b => m <= k]
    IN  [b \in numbers |->
            [descriptorType |-> decl(b).descriptorType,
             descriptors |-> [e \in 1..decl(b).descriptorCount |-> NewDescriptor]]]

\* One round of the loop of vkAllocateDescriptorSets, for pDescriptorSets[i]
RECURSIVE AllocateDescriptorSetsLoop(_, _, _, _, _, _, _)
AllocateDescriptorSetsLoop(i, hs, pSetLayouts, layouts, pool, sink, st) ==
    IF i > Len(hs) THEN st
    ELSE LET h == hs[i]
             r1 == LOG_ERROR(st.reps, "SYNC_MSG_INVALID_PARAM",
                             "unknown pSetLayouts[i]", sink)
             descriptor_set ==
                 [descriptor_set |-> h, descriptor_pool |-> pool,
                  setLayout |-> pSetLayouts[i],
                  bindings |-> NewBindings(layouts[pSetLayouts[i]].bindings)]
             inserted == h \notin DOMAIN st.dsets
             r2 == IF inserted THEN st.reps
                   ELSE LOG_ERROR(st.reps, "SYNC_MSG_INTERNAL_ERROR",
                                  "new set already exists", sink)
             inserted2 == h \notin st.dpools[pool].descriptor_sets
         IN  IF pSetLayouts[i] \notin DOMAIN layouts
             THEN IF Aborted(r1)
                  THEN [st EXCEPT !.reps = r1, !.ret = "VK_ERROR_VALIDATION_FAILED_EXT"]
                  ELSE AllocateDescriptorSetsLoop(i + 1, hs, pSetLayouts, layouts, pool,
                            sink, [st EXCEPT !.reps = r1])
             ELSE AllocateDescriptorSetsLoop(i + 1, hs, pSetLayouts, layouts, pool, sink,
                    [dpools |-> [st.dpools EXCEPT ![pool].descriptor_sets = @ \cup {h}],
                     dsets |-> MapInsert(st.dsets, h, descriptor_set),
                     reps |-> r2,
                     ret |-> IF ~inserted /\ Aborted(r2)
                             THEN "VK_ERROR_VALIDATION_FAILED_EXT" ELSE st.ret,
                     flt |-> IF inserted2 THEN st.flt ELSE "assert",
                     fwd |-> TRUE])

\* pool is pAllocateInfo->descriptorPool, hs is pDescriptorSets
AllocateDescriptorSets(dpools, dsets, layouts, pool, pSetLayouts, hs, result, sink) ==
    LET r1 == LOG_DEBUG(<<>>, "vkAllocateDescriptorSets", sink)
        r2 == LOG_ERROR(r1, "SYNC_MSG_INVALID_PARAM", "unknown descriptorPool", sink)
        same == [dpools |-> dpools, dsets |-> dsets, flt |-> "none"]
    IN  IF Aborted(r1)
        THEN same @@ [reps |-> r1, ret |-> "VK_ERROR_VALIDATION_FAILED_EXT", fwd |-> FALSE]
        ELSE IF result # "VK_SUCCESS"
        THEN same @@ [reps |-> r1, ret |-> result, fwd |-> TRUE]
        ELSE IF pool \notin DOMAIN dpools
        THEN same @@ [reps |-> r2, fwd |-> TRUE,
                      ret |-> IF Aborted(r2) THEN "VK_ERROR_VALIDATION_FAILED_EXT"
                              ELSE result]
        ELSE AllocateDescriptorSetsLoop(1, hs, pSetLayouts, layouts, pool, sink,
                same @@ [reps |-> r1, ret |-> result, fwd |-> TRUE])

\* One round of the loop of vkFreeDescriptorSets, for pDescriptorSets[i]
RECURSIVE FreeDescriptorSetsLoop(_, _, _, _, _)
FreeDescriptorSetsLoop(i, hs, pool, sink, st) ==
    IF i > Len(hs) THEN st
    ELSE LET h == hs[i]
             removed == h \in st.dpools[pool].descriptor_sets
             r == LOG_ERROR(st.reps, "SYNC_MSG_INVALID_PARAM",
                            "unknown pDescriptorSets[i]", sink)
         IN  IF ~removed
             THEN IF Aborted(r)
                  THEN [st EXCEPT !.reps = r, !.fwd = FALSE,
                                  !.ret = "VK_ERROR_VALIDATION_FAILED_EXT"]
                  ELSE FreeDescriptorSetsLoop(i + 1, hs, pool, sink, [st EXCEPT !.reps = r])
             ELSE FreeDescriptorSetsLoop(i + 1, hs, pool, sink,
                    [st EXCEPT !.dpools = [st.dpools EXCEPT ![pool].descriptor_sets = @ \ {h}],
                               !.dsets = MapErase(st.dsets, h),
                               !.flt = IF h \in DOMAIN st.dsets THEN st.flt ELSE "assert"])

FreeDescriptorSets(dpools, dsets, descriptorPool, pDescriptorSets, sink) ==
    LET r1 == LOG_DEBUG(<<>>, "vkFreeDescriptorSets", sink)
        r2 == LOG_ERROR(r1, "SYNC_MSG_INVALID_PARAM", "unknown descriptorPool", sink)
        same == [dpools |-> dpools, dsets |-> dsets, flt |-> "none"]
    IN  IF Aborted(r1)
        THEN same @@ [reps |-> r1, ret |-> "VK_ERROR_VALIDATION_FAILED_EXT", fwd |-> FALSE]
        ELSE IF descriptorPool \notin DOMAIN dpools
        THEN same @@ [reps |-> r2, fwd |-> ~Aborted(r2),
                      ret |-> IF Aborted(r2) THEN "VK_ERROR_VALIDATION_FAILED_EXT"
                              ELSE "VK_SUCCESS"]
        ELSE FreeDescriptorSetsLoop(1, pDescriptorSets, descriptorPool, sink,
                same @@ [reps |-> r1, ret |-> "VK_SUCCESS", fwd |-> TRUE])

(***************************************************************************)
(* vkUpdateDescriptorSets                                                  *)
(***************************************************************************)
ImageDescriptorTypes ==
    {"SAMPLER", "COMBINED_IMAGE_SAMPLER", "SAMPLED_IMAGE", "STORAGE_IMAGE",
     "INPUT_ATTACHMENT"}
TexelBufferDescriptorTypes == {"UNIFORM_TEXEL_BUFFER", "STORAGE_TEXEL_BUFFER"}
BufferDescriptorTypes ==
    {"UNIFORM_BUFFER", "STORAGE_BUFFER", "UNIFORM_BUFFER_DYNAMIC",
     "STORAGE_BUFFER_DYNAMIC"}

\* The switch (binding_type) that stores pImageInfo[j], pTexelBufferView[j] or
\* pBufferInfo[j] (`info`) into the descriptor
StoreDescriptor(descriptor, binding_type, info) ==
    IF binding_type \in ImageDescriptorTypes
    THEN [descriptor EXCEPT !.imageInfo = info, !.valid = TRUE]
    ELSE IF binding_type \in TexelBufferDescriptorTypes
    THEN [descriptor EXCEPT !.bufferView = info, !.valid = TRUE]
    ELSE IF binding_type \in BufferDescriptorTypes
    THEN [descriptor EXCEPT !.bufferInfo = info, !.valid = TRUE]
    ELSE [descriptor EXCEPT !.valid = FALSE]

\* The while (true) loop: from (binding_id, binding_element), step to element 0 of
\* binding_id + 1 as long as the binding exists and the element lies past its end.
\* Ends at an existing slot (found) or at a binding number that is not declared.
RECURSIVE OverflowLoop(_, _, _)
OverflowLoop(bindings, binding_id, binding_element) ==
    IF binding_id \notin DOMAIN bindings
    THEN [found |-> FALSE, binding_id |-> binding_id, binding_element |-> binding_element]
    ELSE IF binding_element >= Len(bindings[binding_id].descriptors)
    THEN OverflowLoop(bindings, binding_id + 1, 0)
    ELSE [found |-> TRUE, binding_id |-> binding_id, binding_element |-> binding_element]

\* The element advance between two descriptors of one write: the code has none,
\* binding_element keeps its value after a descriptor is stored
NextElement(binding_element) == binding_element

\* The loop over j < descriptorCount of one write.  `w` is pDescriptorWrites[i]:
\* [dstSet, dstBinding, dstArrayElement, descriptorType, descriptorCount, infos]
RECURSIVE UpdateDescriptorLoop(_, _, _, _, _, _)
UpdateDescriptorLoop(j, w, binding_id, binding_element, sink, st) ==
    IF j > w.descriptorCount THEN st
    ELSE LET bindings == st.dsets[w.dstSet].bindings
             t == OverflowLoop(bindings, binding_id, binding_element)
             r == LOG_ERROR(st.reps, "SYNC_MSG_INVALID_PARAM",
                            "binding number not defined in the descriptor set layout", sink)
         IN  IF ~t.found
             THEN IF Aborted(r)
                  THEN [st EXCEPT !.reps = r, !.fwd = FALSE, !.done = TRUE]
                  ELSE UpdateDescriptorLoop(j + 1, w, t.binding_id, t.binding_element,
                            sink, [st EXCEPT !.reps = r])
             ELSE UpdateDescriptorLoop(j + 1, w, t.binding_id,
                    NextElement(t.binding_element), sink,
                    [st EXCEPT !.dsets[w.dstSet].bindings[t.binding_id]
                                   .descriptors[t.binding_element + 1] =
                                   StoreDescriptor(@, w.descriptorType, w.infos[j])])

\* The loop over i < descriptorWriteCount
RECURSIVE UpdateWriteLoop(_, _, _, _)
UpdateWriteLoop(i, writes, sink, st) ==
    IF i > Len(writes) \/ st.done THEN st
    ELSE LET w == writes[i]
             r == LOG_ERROR(st.reps, "SYNC_MSG_INVALID_PARAM",
                            "unknown pDescriptorWrites[i].dstSet", sink)
         IN  IF w.dstSet \notin DOMAIN st.dsets
             THEN IF Aborted(r)
                  THEN [st EXCEPT !.reps = r, !.fwd = FALSE, !.done = TRUE]
                  \* auto &bindings = it->second.bindings with it == end()
                  ELSE [st EXCEPT !.reps = r, !.flt = "end_deref", !.done = TRUE]
             ELSE UpdateWriteLoop(i + 1, writes, sink,
                    UpdateDescriptorLoop(1, w, w.dstBinding, w.dstArrayElement, sink, st))

\* descriptorCopyCount is 0 (assert(descriptorCopyCount == 0))
UpdateDescriptorSets(dsets, pDescriptorWrites, sink) ==
    LET r1 == LOG_DEBUG(<<>>, "vkUpdateDescriptorSets", sink)
        st0 == [dsets |-> dsets, reps |-> r1, flt |-> "none", ret |-> "void",
                fwd |-> TRUE, done |-> FALSE]
    IN  IF Aborted(r1) THEN [st0 EXCEPT !.fwd = FALSE, !.done = TRUE]
        ELSE UpdateWriteLoop(1, pDescriptorWrites, sink, st0)

(***************************************************************************)
(* Device memory and buffers                                               *)
(***************************************************************************)
\* A uid taken before the driver's result is looked at: C39 tells it from
\* AllocateMemory
AllocateMemory_CountsFirst(mems, uid, pMemory, result, sink) ==
    LET r1 == LOG_DEBUG(<<>>, "vkAllocateMemory", sink)
    IN  IF Aborted(r1)
        THEN [mems |-> mems, uid |-> uid, flt |-> "none", reps |-> r1,
              ret |-> "VK_ERROR_VALIDATION_FAILED_EXT", fwd |-> FALSE]
        ELSE [mems |-> IF result = "VK_SUCCESS" /\ pMemory \notin DOMAIN mems
                       THEN MapInsert(mems, pMemory,
                                [deviceMemory |-> pMemory, uid |-> uid, isMapped |-> FALSE])
                       ELSE mems,
              uid |-> uid + 1, flt |-> "none", reps |-> r1, ret |-> result, fwd |-> TRUE]

\* nextMemoryUid++ is evaluated before the insert is tried
AllocateMemory(mems, uid, pMemory, result, sink) ==
    LET r1 == LOG_DEBUG(<<>>, "vkAllocateMemory", sink)
        inserted == pMemory \notin DOMAIN mems
        r2 == IF inserted THEN r1
              ELSE LOG_ERROR(r1, "SYNC_MSG_INTERNAL_ERROR", "new memory already exists", sink)
        same == [mems |-> mems, uid |-> uid, flt |-> "none"]
    IN  IF Aborted(r1)
        THEN same @@ [reps |-> r1, ret |-> "VK_ERROR_VALIDATION_FAILED_EXT", fwd |-> FALSE]
        ELSE IF result # "VK_SUCCESS"
        THEN same @@ [reps |-> r1, ret |-> result, fwd |-> TRUE]
        ELSE [mems |-> MapInsert(mems, pMemory,
                          [deviceMemory |-> pMemory, uid |-> uid, isMapped |-> FALSE]),
              uid |-> uid + 1,
              flt |-> "none", reps |-> r2, fwd |-> TRUE,
              ret |-> IF ~inserted /\ Aborted(r2)
                      THEN "VK_ERROR_VALIDATION_FAILED_EXT" ELSE result]

FreeMemory(mems, memory, sink) ==
    LET r1 == LOG_DEBUG(<<>>, "vkFreeMemory", sink)
        r2 == LOG_ERROR(r1, "SYNC_MSG_INVALID_PARAM", "unknown memory", sink)
        same == [mems |-> mems, flt |-> "none", ret |-> "void"]
    IN  IF Aborted(r1)
        THEN same @@ [reps |-> r1, fwd |-> FALSE]
        ELSE IF memory \notin DOMAIN mems
        THEN same @@ [reps |-> r2, fwd |-> ~Aborted(r2)]
        ELSE [mems |-> MapErase(mems, memory),
              flt |-> "none", ret |-> "void", reps |-> r1, fwd |-> TRUE]

\* `sync_buffer buffer;` and `sync_image image;` are default-initialised and
\* their `memory` is not assigned before the insert: the record holds whatever
\* the stack held, NoHandle or the value of some handle
Indeterminate(handles) == {NoHandle} \cup handles

CreateBuffer(bufs, pBuffer, memory, result, sink) ==
    LET r1 == LOG_DEBUG(<<>>, "vkCreateBuffer", sink)
        inserted == pBuffer \notin DOMAIN bufs
        r2 == IF inserted THEN r1
              ELSE LOG_ERROR(r1, "SYNC_MSG_INTERNAL_ERROR", "new buffer already exists", sink)
        same == [bufs |-> bufs, flt |-> "none"]
    IN  IF Aborted(r1)
        THEN same @@ [reps |-> r1, ret |-> "VK_ERROR_VALIDATION_FAILED_EXT", fwd |-> FALSE]
        ELSE IF result # "VK_SUCCESS"
        THEN same @@ [reps |-> r1, ret |-> result, fwd |-> TRUE]
        ELSE [bufs |-> MapInsert(bufs, pBuffer,
                          [buffer |-> pBuffer, memory |-> memory, memoryOffset |-> 0]),
              flt |-> "none", reps |-> r2, fwd |-> TRUE,
              ret |-> IF ~inserted /\ Aborted(r2)
                      THEN "VK_ERROR_VALIDATION_FAILED_EXT" ELSE result]

DestroyBuffer(bufs, buffer, sink) ==
    LET r1 == LOG_DEBUG(<<>>, "vkDestroyBuffer", sink)
        r2 == LOG_ERROR(r1, "SYNC_MSG_INVALID_PARAM", "unknown buffer", sink)
        same == [bufs |-> bufs, flt |-> "none", ret |-> "void"]
    IN  IF Aborted(r1)
        THEN same @@ [reps |-> r1, fwd |-> FALSE]
        ELSE IF buffer \notin DOMAIN bufs
        THEN same @@ [reps |-> r2, fwd |-> ~Aborted(r2)]
        ELSE [bufs |-> MapErase(bufs, buffer),
              flt |-> "none", ret |-> "void", reps |-> r1, fwd |-> TRUE]

BindBufferMemory(bufs, buffer, memory, memoryOffset, sink) ==
    LET r1 == LOG_DEBUG(<<>>, "vkBindBufferMemory", sink)
        r2 == LOG_ERROR(r1, "SYNC_MSG_INVALID_PARAM", "unknown buffer", sink)
        same == [bufs |-> bufs, flt |-> "none"]
    IN  IF Aborted(r1)
        THEN same @@ [reps |-> r1, ret |-> "VK_ERROR_VALIDATION_FAILED_EXT", fwd |-> FALSE]
        ELSE IF buffer \notin DOMAIN bufs
        THEN same @@ [reps |-> r2, fwd |-> ~Aborted(r2),
                      ret |-> IF Aborted(r2) THEN "VK_ERROR_VALIDATION_FAILED_EXT"
                              ELSE "VK_SUCCESS"]
        ELSE [bufs |-> [bufs EXCEPT ![buffer].memory = memory,
                                    ![buffer].memoryOffset = memoryOffset],
              flt |-> "none", ret |-> "VK_SUCCESS", reps |-> r1, fwd |-> TRUE]

(***************************************************************************)
(* Buffer views, images and image views                                    *)
(***************************************************************************)
CreateBufferView(views, pView, buffer, result, sink) ==
    LET r1 == LOG_DEBUG(<<>>, "vkCreateBufferView", sink)
        inserted == pView \notin DOMAIN views
        r2 == IF inserted THEN r1
              ELSE LOG_ERROR(r1, "SYNC_MSG_INTERNAL_ERROR", "new buffer view already exists",
                             sink)
        same == [views |-> views, flt |-> "none"]
    IN  IF Aborted(r1)
        THEN same @@ [reps |-> r1, ret |-> "VK_ERROR_VALIDATION_FAILED_EXT", fwd |-> FALSE]
        ELSE IF result # "VK_SUCCESS"
        THEN same @@ [reps |-> r1, ret |-> result, fwd |-> TRUE]
        ELSE [views |-> MapInsert(views, pView,
                          [buffer_view |-> pView, buffer |-> buffer, offset |-> 0,
                           range |-> 0]),
              flt |-> "none", reps |-> r2, fwd |-> TRUE,
              ret |-> IF ~inserted /\ Aborted(r2)
                      THEN "VK_ERROR_VALIDATION_FAILED_EXT" ELSE result]

CreateImage(imgs, pImage, memory, result, sink) ==
    LET r1 == LOG_DEBUG(<<>>, "vkCreateImage", sink)
        inserted == pImage \notin DOMAIN imgs
        r2 == IF inserted THEN r1
              ELSE LOG_ERROR(r1, "SYNC_MSG_INTERNAL_ERROR", "new image already exists", sink)
        same == [imgs |-> imgs, flt |-> "none"]
    IN  IF Aborted(r1)
        THEN same @@ [reps |-> r1, ret |-> "VK_ERROR_VALIDATION_FAILED_EXT", fwd |-> FALSE]
        ELSE IF result # "VK_SUCCESS"
        THEN same @@ [reps |-> r1, ret |-> result, fwd |-> TRUE]
        ELSE [imgs |-> MapInsert(imgs, pImage,
                          [image |-> pImage, memory |-> memory, memoryOffset |-> 0]),
              flt |-> "none", reps |-> r2, fwd |-> TRUE,
              ret |-> IF ~inserted /\ Aborted(r2)
                      THEN "VK_ERROR_VALIDATION_FAILED_EXT" ELSE result]

BindImageMemory(imgs, image, memory, memoryOffset, sink) ==
    LET r1 == LOG_DEBUG(<<>>, "vkBindImageMemory", sink)
        r2 == LOG_ERROR(r1, "SYNC_MSG_INVALID_PARAM", "unknown image", sink)
        same == [imgs |-> imgs, flt |-> "none"]
    IN  IF Aborted(r1)
        THEN same @@ [reps |-> r1, ret |-> "VK_ERROR_VALIDATION_FAILED_EXT", fwd |-> FALSE]
        ELSE IF image \notin DOMAIN imgs
        THEN same @@ [reps |-> r2, fwd |-> ~Aborted(r2),
                      ret |-> IF Aborted(r2) THEN "VK_ERROR_VALIDATION_FAILED_EXT"
                              ELSE "VK_SUCCESS"]
        ELSE [imgs |-> [imgs EXCEPT ![image].memory = memory,
                                    ![image].memoryOffset = memoryOffset],
              flt |-> "none", ret |-> "VK_SUCCESS", reps |-> r1, fwd |-> TRUE]

\* subresourceRange is the whole image in every view of the model
CreateImageView(views, pView, image, result, sink) ==
    LET r1 == LOG_DEBUG(<<>>, "vkCreateImageView", sink)
        inserted == pView \notin DOMAIN views
        r2 == IF inserted THEN r1
              ELSE LOG_ERROR(r1, "SYNC_MSG_INTERNAL_ERROR", "new image view already exists",
                             sink)
        same == [views |-> views, flt |-> "none"]
    IN  IF Aborted(r1)
        THEN same @@ [reps |-> r1, ret |-> "VK_ERROR_VALIDATION_FAILED_EXT", fwd |-> FALSE]
        ELSE IF result # "VK_SUCCESS"
        THEN same @@ [reps |-> r1, ret |-> result, fwd |-> TRUE]
        ELSE [views |-> MapInsert(views, pView,
                          [image_view |-> pView, image |-> image,
                           subresourceRange |-> "whole"]),
              flt |-> "none", reps |-> r2, fwd |-> TRUE,
              ret |-> IF ~inserted /\ Aborted(r2)
                      THEN "VK_ERROR_VALIDATION_FAILED_EXT" ELSE result]

(***************************************************************************)
(* struct CommandId and its ordering                                       *)
(***************************************************************************)
\* ~(uint64_t)0: every bit of the field set
SUBPASS_NONE == 2^IdBits - 1

\* The field values the comparisons are tried on: the smallest two and the largest
IdSamples == {0, 1, SUBPASS_NONE}

CommandIds == [queueId : IdSamples, subpassId : IdSamples, sequenceId : IdSamples]

\* A CMP that never answers false: C20 tells it from CMP
CMP_OnlyLess(a, b) == IF a < b THEN "true" ELSE "equal"

\* #define CMP(a, b): return true if a < b, return false if b < a, else fall
\* through to the next field
CMP(a, b) == IF a < b THEN "true" ELSE IF b < a THEN "false" ELSE "equal"

\* An operator< that orders only ids of one queue and one subpass: C23 tells it
\* from CommandIdLess
CommandIdLess_SameScope(a, c) ==
    /\ CMP(a.queueId, c.queueId) = "equal"
    /\ CMP(a.subpassId, c.subpassId) = "equal"
    /\ CMP(a.sequenceId, c.sequenceId) = "true"

\* bool CommandId::operator<(const CommandId &c) const, `a` being *this
CommandIdLess(a, c) ==
    IF CMP(a.queueId, c.queueId) # "equal" THEN CMP(a.queueId, c.queueId) = "true"
    ELSE IF CMP(a.subpassId, c.subpassId) # "equal"
    THEN CMP(a.subpassId, c.subpassId) = "true"
    ELSE IF CMP(a.sequenceId, c.sequenceId) # "equal"
    THEN CMP(a.sequenceId, c.sequenceId) = "true"
    ELSE FALSE

(***************************************************************************)
(* Pipeline layouts and graphics pipelines                                 *)
(***************************************************************************)
\* setLayouts is pCreateInfo->pSetLayouts
CreatePipelineLayout(playouts, pPipelineLayout, setLayouts, result, sink) ==
    LET r1 == LOG_DEBUG(<<>>, "vkCreatePipelineLayout", sink)
        inserted == pPipelineLayout \notin DOMAIN playouts
        r2 == IF inserted THEN r1
              ELSE LOG_ERROR(r1, "SYNC_MSG_INTERNAL_ERROR",
                             "new pipeline layout already exists", sink)
        same == [playouts |-> playouts, flt |-> "none"]
    IN  IF Aborted(r1)
        THEN same @@ [reps |-> r1, ret |-> "VK_ERROR_VALIDATION_FAILED_EXT", fwd |-> FALSE]
        ELSE IF result # "VK_SUCCESS"
        THEN same @@ [reps |-> r1, ret |-> result, fwd |-> TRUE]
        ELSE [playouts |-> MapInsert(playouts, pPipelineLayout,
                              [pipeline_layout |-> pPipelineLayout,
                               setLayouts |-> setLayouts]),
              flt |-> "none", reps |-> r2, fwd |-> TRUE,
              ret |-> IF ~inserted /\ Aborted(r2)
                      THEN "VK_ERROR_VALIDATION_FAILED_EXT" ELSE result]

\* The loop over p < createInfoCount: pPipelines[p] gets the layout of
\* pCreateInfos[p] (`layouts[p]`)
RECURSIVE CreateGraphicsPipelinesLoop(_, _, _, _, _)
CreateGraphicsPipelinesLoop(p, pPipelines, layouts, sink, st) ==
    IF p > Len(pPipelines) THEN st
    ELSE LET h == pPipelines[p]
             inserted == h \notin DOMAIN st.pipes
             r == IF inserted THEN st.reps
                  ELSE LOG_ERROR(st.reps, "SYNC_MSG_INTERNAL_ERROR",
                                 "new pipeline already exists", sink)
             s1 == [st EXCEPT !.pipes = MapInsert(@, h, [pipeline |-> h, layout |-> layouts[p]]),
                              !.reps = r]
         IN  IF ~inserted /\ Aborted(r)
             THEN [s1 EXCEPT !.ret = "VK_ERROR_VALIDATION_FAILED_EXT"]
             ELSE CreateGraphicsPipelinesLoop(p + 1, pPipelines, layouts, sink, s1)

CreateGraphicsPipelines(pipes, pPipelines, layouts, result, sink) ==
    LET r1 == LOG_DEBUG(<<>>, "vkCreateGraphicsPipelines", sink)
        same == [pipes |-> pipes, flt |-> "none"]
    IN  IF Aborted(r1)
        THEN same @@ [reps |-> r1, ret |-> "VK_ERROR_VALIDATION_FAILED_EXT", fwd |-> FALSE]
        ELSE IF result # "VK_SUCCESS"
        THEN same @@ [reps |-> r1, ret |-> result, fwd |-> TRUE]
        ELSE CreateGraphicsPipelinesLoop(1, pPipelines, layouts, sink,
                same @@ [reps |-> r1, ret |-> result, fwd |-> TRUE])

(***************************************************************************)
(* SyncValidator::submitCmdBuffer and vkQueueSubmit                        *)
(***************************************************************************)
\* A report that also carries the object it is about: `obj` is the command
\* buffer with the position (0: none) of the command in its log being processed.
\* `flag` is what log_msg receives: the level in the validator's _LOG_GENERIC,
\* always VK_DEBUG_REPORT_DEBUG_BIT_EXT in sync.cpp's
LogAbout(reps, level, flag, code, msg, obj, sink) ==
    Append(reps, [level |-> level, flag |-> flag, code |-> code, msg |-> msg,
                  obj |-> obj, abort |-> SinkAnswer(sink, Len(reps) + 1)])

\* The stages a draw is split into, besides TOP_OF_PIPE and BOTTOM_OF_PIPE
ActionStages ==
    {"DRAW_INDIRECT", "VERTEX_INPUT", "VERTEX_SHADER", "TESSELLATION_CONTROL_SHADER",
     "TESSELLATION_EVALUATION_SHADER", "GEOMETRY_SHADER", "FRAGMENT_SHADER",
     "EARLY_FRAGMENT_TESTS", "LATE_FRAGMENT_TESTS", "COLOR_ATTACHMENT_OUTPUT",
     "COMPUTE_SHADER", "TRANSFER"}

\* pipelineStages of a layout binding: one shader stage per bit of stageFlags
PipelineStages(stageFlags) ==
    {s \in ActionStages :
        \/ s = "VERTEX_SHADER" /\ "VERTEX" \in stageFlags
        \/ s = "TESSELLATION_CONTROL_SHADER" /\ "TESSELLATION_CONTROL" \in stageFlags
        \/ s = "TESSELLATION_EVALUATION_SHADER" /\ "TESSELLATION_EVALUATION" \in stageFlags
        \/ s = "GEOMETRY_SHADER" /\ "GEOMETRY" \in stageFlags
        \/ s = "FRAGMENT_SHADER" /\ "FRAGMENT" \in stageFlags}

StageNode(commandId, stage) ==
    [type |-> "ACTION_CMD_STAGE", commandId |-> commandId, stage |-> stage,
     access |-> "NONE", memory |-> [type |-> "INVALID", buffer |-> NoHandle]]

MemNode(type, commandId, stage, buffer) ==
    [type |-> type, commandId |-> commandId, stage |-> stage,
     access |-> IF type = "MEM_READ" THEN "SHADER_READ" ELSE "SHADER_WRITE",
     memory |-> [type |-> "BUFFER", buffer |-> buffer]]

SyncEdge(a, b) == [a |-> a, b |-> b]

\* The edges of one draw: TOP_OF_PIPE -> stage -> BOTTOM_OF_PIPE for every stage
DrawEdges(commandId) ==
    UNION {{SyncEdge(StageNode(commandId, "TOP_OF_PIPE"), StageNode(commandId, s)),
            SyncEdge(StageNode(commandId, s), StageNode(commandId, "BOTTOM_OF_PIPE"))} :
           s \in ActionStages}

\* A draw that leaves the counter alone: C24 tells it from NextSequenceId
NextSequenceId_Same(id) == id

\* nextCommandId.sequenceId++ on a uint64_t
NextSequenceId(id) == [id EXCEPT !.sequenceId = (@ + 1) % 2^IdBits]

\* CommandId::CommandId() with uint64_t nextSubpassId, before the function sets them
DefaultCommandId ==
    [id |-> [queueId |-> 0, subpassId |-> 0, sequenceId |-> 0], subpass |-> 0]

\* The value nextCommandId and nextSubpassId start from in a call of
\* submitCmdBuffer: locals of the function, set at its top whatever a previous
\* call left (`prev`)
FirstCommandId_Kept(prev) == prev

FirstCommandId(prev) ==
    [id |-> [queueId |-> 0, subpassId |-> SUBPASS_NONE, sequenceId |-> 0], subpass |-> 0]

\* No pipeline and no descriptor set bound
NoBindings ==
    [graphicsPipeline |-> NoHandle, computePipeline |-> NoHandle,
     graphicsBindings |-> EmptyMap, computeBindings |-> EmptyMap]

\* A traversal that starts from the bindings the previous one left: C28 tells
\* it from FirstBindings
FirstBindings_Kept(prev) == prev

\* graphicsPipeline, computePipeline, graphicsBindings and computeBindings are
\* locals of submitCmdBuffer, set at its top whatever a previous call left
FirstBindings(prev) == NoBindings

\* return LOG_ERROR(COMMAND_BUFFER, buf.command_buffer, SYNC_MSG_NONE, msg)
ReturnError(st, msg, obj, sink) ==
    LET r == LogAbout(st.reps, "ERROR", "ERROR", "SYNC_MSG_NONE", msg, obj, sink)
    IN  [st EXCEPT !.reps = r, !.done = TRUE, !.ret = Aborted(r)]

\* return LOG_ERROR(...) with a format that ends in "on set %u" or in
\* "on set %u, binding %u": `at` holds the numbers printed
ReturnErrorAt(st, msg, at, obj, sink) ==
    LET r == LogAbout(st.reps, "ERROR", "ERROR", "SYNC_MSG_NONE", msg, obj, sink)
    IN  [st EXCEPT !.reps = [r EXCEPT ![Len(r)] = @ @@ [at |-> at]],
                   !.done = TRUE, !.ret = Aborted(r)]

\* What the lookups of one descriptor come to: the error message of the first
\* lookup that fails ("" when all succeed), the region the nodes are about,
\* whether the descriptor type also writes and whether the branch inserts edges
Resolution(err, memory, writes, linked) ==
    [err |-> err, memory |-> memory, writes |-> writes, linked |-> linked]

NoRegion == [type |-> "INVALID", buffer |-> NoHandle]

\* case VK_DESCRIPTOR_TYPE_SAMPLER ... VK_DESCRIPTOR_TYPE_INPUT_ATTACHMENT
ResolveImage(descriptor, descriptorType, dev) ==
    LET imageView == descriptor.imageInfo
        image == dev.image_views[imageView].image
    IN  IF imageView \notin DOMAIN dev.image_views
        THEN Resolution("Draw command called with unknown image view", NoRegion, FALSE, TRUE)
        ELSE IF image \notin DOMAIN dev.images
        THEN Resolution("Draw command called with image view with unknown image",
                        NoRegion, FALSE, TRUE)
        ELSE IF dev.images[image].memory \notin DOMAIN dev.device_memories
        THEN Resolution("Draw command called with image with unknown memory",
                        NoRegion, FALSE, TRUE)
        ELSE Resolution("", [type |-> "IMAGE", image |-> image,
                             imageSubresourceRange |->
                                dev.image_views[imageView].subresourceRange],
                        descriptorType = "STORAGE_IMAGE", TRUE)

\* case VK_DESCRIPTOR_TYPE_UNIFORM_TEXEL_BUFFER, VK_DESCRIPTOR_TYPE_STORAGE_TEXEL_BUFFER
ResolveTexelBuffer(descriptor, descriptorType, dev) ==
    LET bufferView == descriptor.bufferView
        buffer == dev.buffer_views[bufferView].buffer
    IN  IF bufferView \notin DOMAIN dev.buffer_views
        THEN Resolution("Draw command called with unknown buffer view", NoRegion, FALSE, FALSE)
        ELSE IF buffer \notin DOMAIN dev.buffers
        THEN Resolution("Draw command called with buffer view with unknown buffer",
                        NoRegion, FALSE, FALSE)
        ELSE IF dev.buffers[buffer].memory \notin DOMAIN dev.device_memories
        THEN Resolution("Draw command called with buffer with unknown memory",
                        NoRegion, FALSE, FALSE)
        ELSE Resolution("", [type |-> "BUFFER", buffer |-> buffer],
                        descriptorType = "STORAGE_TEXEL_BUFFER", FALSE)

\* A buffer case that takes the dynamic storage buffer for read-only: C31
\* tells it from ResolveBuffer
ResolveBuffer_NoDynamic(descriptor, descriptorType, dev) ==
    LET buffer == descriptor.bufferInfo
    IN  IF buffer \notin DOMAIN dev.buffers
        THEN Resolution("Draw command called with unknown buffer", NoRegion, FALSE, FALSE)
        ELSE IF dev.buffers[buffer].memory \notin DOMAIN dev.device_memories
        THEN Resolution("Draw command called with buffer with unknown memory",
                        NoRegion, FALSE, FALSE)
        ELSE Resolution("", [type |-> "BUFFER", buffer |-> buffer],
                        descriptorType = "STORAGE_BUFFER", FALSE)

\* case VK_DESCRIPTOR_TYPE_UNIFORM_BUFFER ... VK_DESCRIPTOR_TYPE_STORAGE_BUFFER_DYNAMIC
ResolveBuffer(descriptor, descriptorType, dev) ==
    LET buffer == descriptor.bufferInfo
    IN  IF buffer \notin DOMAIN dev.buffers
        THEN Resolution("Draw command called with unknown buffer", NoRegion, FALSE, FALSE)
        ELSE IF dev.buffers[buffer].memory \notin DOMAIN dev.device_memories
        THEN Resolution("Draw command called with buffer with unknown memory",
                        NoRegion, FALSE, FALSE)
        ELSE Resolution("", [type |-> "BUFFER", buffer |-> buffer],
                        descriptorType \in {"STORAGE_BUFFER", "STORAGE_BUFFER_DYNAMIC"},
                        FALSE)

\* switch (binding.descriptorType)
Resolve(descriptor, descriptorType, dev) ==
    IF descriptorType \in ImageDescriptorTypes
    THEN ResolveImage(descriptor, descriptorType, dev)
    ELSE IF descriptorType \in TexelBufferDescriptorTypes
    THEN ResolveTexelBuffer(descriptor, descriptorType, dev)
    ELSE ResolveBuffer(descriptor, descriptorType, dev)

\* A MEM_READ or MEM_WRITE node of a region
AccessNode(type, commandId, stage, memory) ==
    [type |-> type, commandId |-> commandId, stage |-> stage,
     access |-> IF type = "MEM_READ" THEN "SHADER_READ" ELSE "SHADER_WRITE",
     memory |-> memory]

\* for (auto stage : pipelineStages): the nodes inserted into memNodes
AccessNodes(res, commandId, stages) ==
    {AccessNode(t, commandId, s, res.memory) :
        t \in {"MEM_READ"} \cup (IF res.writes THEN {"MEM_WRITE"} ELSE {}), s \in stages}

\* ... and the edges inserted into edges: both ways between the node and the
\* stage node in the branch of the image descriptors, none in the other two
AccessEdges(res, nodes) ==
    IF res.linked
    THEN UNION {{SyncEdge(StageNode(n.commandId, n.stage), n),
                 SyncEdge(n, StageNode(n.commandId, n.stage))} : n \in nodes}
    ELSE {}

\* One round of the loop over arrayIdx with the descriptor looked up
Descriptor(res, binding, commandId, obj, at, dev, st) ==
    IF res.err # ""
    THEN ReturnErrorAt(st, res.err, at, obj, dev.sink)
    ELSE [st EXCEPT !.memNodes = @ \cup
                        AccessNodes(res, commandId, PipelineStages(binding.stageFlags)),
                    !.edges = @ \cup
                        AccessEdges(res, AccessNodes(res, commandId,
                                                     PipelineStages(binding.stageFlags)))]

\* The loop over arrayIdx < binding.descriptorCount:
\* descriptors.at(arrayIdx) throws past the end of the set's array; a type
\* outside the three cases prints "(INVALID TYPE)" and no more
RECURSIVE DescriptorLoop(_, _, _, _, _, _, _, _)
DescriptorLoop(arrayIdx, binding, descriptors, dev, commandId, obj, at, st) ==
    IF st.done \/ arrayIdx >= binding.descriptorCount THEN st
    ELSE IF binding.descriptorType \notin
                ImageDescriptorTypes \cup TexelBufferDescriptorTypes \cup BufferDescriptorTypes
    THEN DescriptorLoop(arrayIdx + 1, binding, descriptors, dev, commandId, obj, at, st)
    ELSE IF arrayIdx >= Len(descriptors)
    THEN [st EXCEPT !.done = TRUE, !.flt = "out_of_range"]
    ELSE DescriptorLoop(arrayIdx + 1, binding, descriptors, dev, commandId, obj, at,
            Descriptor(Resolve(descriptors[arrayIdx + 1], binding.descriptorType, dev),
                       binding, commandId, obj, at, dev, st))

\* The loop over layout->second.bindings: bindingIdx counts the declarations
RECURSIVE BindingLoop(_, _, _, _, _, _, _, _)
BindingLoop(bindingIdx, bindings, set, dev, commandId, obj, setIdx, st) ==
    IF st.done \/ bindingIdx >= Len(bindings) THEN st
    ELSE IF bindingIdx \notin DOMAIN set.bindings
    THEN ReturnErrorAt(st, "Draw command called with no descriptor bound",
                       <<setIdx, bindingIdx>>, obj, dev.sink)
    ELSE BindingLoop(bindingIdx + 1, bindings, set, dev, commandId, obj, setIdx,
            DescriptorLoop(0, bindings[bindingIdx + 1], set.bindings[bindingIdx].descriptors,
                           dev, commandId, obj, <<setIdx, bindingIdx>>, st))

\* The second loop over pipelineLayout->second.setLayouts ("Accessible memory")
RECURSIVE SetLoop(_, _, _, _, _, _)
SetLoop(setIdx, setLayouts, dev, commandId, obj, st) ==
    IF st.done \/ setIdx >= Len(setLayouts) THEN st
    ELSE IF setLayouts[setIdx + 1] \notin DOMAIN dev.descriptor_set_layouts
    THEN ReturnError(st, "Draw command called with pipeline layout with unknown descriptor set layout", obj, dev.sink)
    ELSE IF setIdx \notin DOMAIN st.graphicsBindings
    THEN ReturnErrorAt(st, "Draw command called with no descriptor set bound",
                       <<setIdx>>, obj, dev.sink)
    ELSE SetLoop(setIdx + 1, setLayouts, dev, commandId, obj,
            BindingLoop(0, dev.descriptor_set_layouts[setLayouts[setIdx + 1]].bindings,
                        dev.descriptor_sets[st.graphicsBindings[setIdx]],
                        dev, commandId, obj, setIdx, st))

\* if (LOG_INFO(COMMAND_BUFFER, buf.command_buffer, SYNC_MSG_NONE, "%s", str))
\*     return true;  at the end of a draw that got through the loops
DrawDump(dev, obj, st) ==
    LET r == LogAbout(st.reps, "INFO", "INFO", "SYNC_MSG_NONE", "Draw command", obj, dev.sink)
    IN  IF st.done THEN st
        ELSE [st EXCEPT !.reps = r, !.done = Aborted(r), !.ret = Aborted(r)]

\* if (cmd->is_draw()) { ... }
DrawCommand(dev, obj, st) ==
    LET commandId == st.nextCommandId
        s1 == [st EXCEPT !.nextCommandId = NextSequenceId(@),
                         !.draws = Append(@, [pos |-> obj[2], id |-> commandId])]
        pipeline == dev.graphics_pipelines[st.graphicsPipeline]
        pipelineLayout == dev.pipeline_layouts[pipeline.layout]
        known(k) == pipelineLayout.setLayouts[k] \in DOMAIN dev.descriptor_set_layouts
    IN  IF st.graphicsPipeline = NoHandle
        THEN ReturnError(s1, "Draw command called with no pipeline bound", obj, dev.sink)
        ELSE IF st.graphicsPipeline \notin DOMAIN dev.graphics_pipelines
        THEN ReturnError(s1, "Draw command called with unknown pipeline bound", obj, dev.sink)
        ELSE IF pipeline.layout \notin DOMAIN dev.pipeline_layouts
        THEN ReturnError(s1, "Draw command called with pipeline with unknown pipeline layout", obj, dev.sink)
        ELSE IF \E k \in 1..Len(pipelineLayout.setLayouts) : ~known(k)
        THEN ReturnError(s1, "Draw command called with pipeline layout with unknown descriptor set layout", obj, dev.sink)
        ELSE DrawDump(dev, obj,
                SetLoop(0, pipelineLayout.setLayouts, dev, commandId, obj,
                        [s1 EXCEPT !.edges = @ \cup DrawEdges(commandId)]))

\* A lookup that finds every handle: C18 tells it from FindDescriptorSet
FindDescriptorSet_Any(dev, h) == TRUE

\* mSyncDevice.descriptor_sets.find(h) != mSyncDevice.descriptor_sets.end()
FindDescriptorSet(dev, h) == h \in DOMAIN dev.descriptor_sets

\* The loop over bindDescriptorSets->descriptorSets: a Binding points at the
\* set's record in the store
\* Every array bound from slot 0, whatever firstSet says: C29 tells it from
\* SetNumber
SetNumber_Position(firstSet, i) == i

\* uint32_t setNumber = bindDescriptorSets->firstSet + i;
SetNumber(firstSet, i) == firstSet + i

\* A Binding that is also written through: binding.descriptorSet points into
\* the store, and the set it points at loses its pool.  C37 tells it from Bind
Bind_ThroughPointer(cmd, i, st) ==
    LET h == cmd.descriptorSets[i + 1]
        n == CHOOSE n \in DOMAIN st.store.descriptor_sets :
                st.store.descriptor_sets[n].descriptor_set = h
    IN  [st EXCEPT !.graphicsBindings =
                        MapInsert(MapErase(@, SetNumber(cmd.firstSet, i)),
                                  SetNumber(cmd.firstSet, i), h),
                   !.store.descriptor_sets[n].descriptor_pool = NoHandle]

\* Binding binding; binding.descriptorSet = &descriptorSet->second;
\* graphicsBindings[setNumber] = binding (or computeBindings): the maps are
\* locals of the call, the store is only pointed at
Bind(cmd, i, st) ==
    IF cmd.pipelineBindPoint = "GRAPHICS"
    THEN [st EXCEPT !.graphicsBindings =
                MapInsert(MapErase(@, SetNumber(cmd.firstSet, i)),
                          SetNumber(cmd.firstSet, i), cmd.descriptorSets[i + 1])]
    ELSE IF cmd.pipelineBindPoint = "COMPUTE"
    THEN [st EXCEPT !.computeBindings =
                MapInsert(MapErase(@, SetNumber(cmd.firstSet, i)),
                          SetNumber(cmd.firstSet, i), cmd.descriptorSets[i + 1])]
    ELSE st

RECURSIVE BindLoop(_, _, _, _, _)
BindLoop(i, cmd, dev, obj, st) ==
    IF st.done \/ i >= Len(cmd.descriptorSets) THEN st
    ELSE IF ~FindDescriptorSet(dev, cmd.descriptorSets[i + 1])
    THEN ReturnError(st, "Draw command called with unknown descriptor set bound", obj, dev.sink)
    ELSE BindLoop(i + 1, cmd, dev, obj, Bind(cmd, i, st))

\* sync_cmd_base::as_begin_render_pass returns nullptr and
\* sync_cmd_begin_render_pass overrides it to return this
as_begin_render_pass(cmd) == cmd.kind = "begin_render_pass"

\* sync_cmd_base::as_next_subpass returns nullptr, and so does the override
\* in sync_cmd_next_subpass
as_next_subpass(cmd) == FALSE

\* sync_cmd_base::as_end_render_pass returns nullptr, and so does the override
\* in sync_cmd_end_render_pass
as_end_render_pass(cmd) == FALSE

\* nextCommandId.subpassId = CommandId::SUBPASS_NONE, for an end of render pass
ExitRenderPass(cmd, st) ==
    IF as_end_render_pass(cmd) THEN [st EXCEPT !.nextCommandId.subpassId = SUBPASS_NONE]
    ELSE st

\* nextCommandId.subpassId = nextSubpassId++, for a begin of render pass or a
\* next subpass
EnterSubpass(cmd, st) ==
    IF as_begin_render_pass(cmd) \/ as_next_subpass(cmd)
    THEN [st EXCEPT !.nextCommandId.subpassId = st.nextSubpassId,
                    !.nextSubpassId = (@ + 1) % 2^IdBits]
    ELSE st

\* One pass of for (auto &cmd : buf.commands)
ValidateCommand(cmd, dev, obj, st) ==
    LET s1 == ExitRenderPass(cmd, EnterSubpass(cmd, st))
        s2 == IF cmd.kind # "bind_pipeline" THEN s1
              ELSE IF cmd.pipelineBindPoint = "GRAPHICS"
              THEN [s1 EXCEPT !.graphicsPipeline = cmd.pipeline]
              ELSE IF cmd.pipelineBindPoint = "COMPUTE"
              THEN [s1 EXCEPT !.computePipeline = cmd.pipeline]
              ELSE s1
        s3 == IF cmd.kind = "bind_descriptor_sets" THEN BindLoop(0, cmd, dev, obj, s2)
              ELSE s2
    IN  IF s3.done \/ cmd.kind \notin {"draw", "draw_indexed"} THEN s3
        ELSE DrawCommand(dev, obj, s3)

RECURSIVE CommandLoop(_, _, _, _)
CommandLoop(k, buf, dev, st) ==
    IF st.done \/ k > Len(buf.commands) THEN st
    ELSE CommandLoop(k + 1, buf, dev,
            ValidateCommand(buf.commands[k], dev, <<buf.command_buffer, k>>, st))

\* for (node : memNodes) / for (edge : edges): one LOG_INFO for each of the
\* `n` elements left, return true at the first the sink answers true
RECURSIVE DumpLoop(_, _, _, _, _)
DumpLoop(n, msg, obj, sink, st) ==
    IF st.done \/ n = 0 THEN st
    ELSE LET r == LogAbout(st.reps, "INFO", "INFO", "SYNC_MSG_NONE", msg, obj, sink)
         IN  DumpLoop(n - 1, msg, obj, sink,
                      [st EXCEPT !.reps = r, !.done = Aborted(r), !.ret = Aborted(r)])

DumpNodes(obj, sink, st) == DumpLoop(Cardinality(st.memNodes), "Mem node", obj, sink, st)

DumpEdges(obj, sink, st) == DumpLoop(Cardinality(st.edges), "Edge", obj, sink, st)

\* The maps of mSyncDevice, as a call that holds a reference to it leaves them
ShadowStore(dev) == [f \in DOMAIN dev \ {"sink"} |-> dev[f]]

\* bool SyncValidator::submitCmdBuffer(VkQueue queue, const sync_command_buffer &buf).
\* `dev` is mSyncDevice with the sink; `prev` what a previous call left behind
submitCmdBuffer(dev, buf, prev, reps) ==
    LET first == FirstCommandId(prev)
        bound == FirstBindings(prev.bound)
        obj == <<buf.command_buffer, Len(buf.commands) + 1>>
        st0 == [graphicsPipeline |-> bound.graphicsPipeline,
                computePipeline |-> bound.computePipeline,
                graphicsBindings |-> bound.graphicsBindings,
                computeBindings |-> bound.computeBindings,
                nextCommandId |-> first.id, nextSubpassId |-> first.subpass,
                memNodes |-> {}, edges |-> {}, draws |-> <<>>,
                reps |-> reps, done |-> FALSE, ret |-> FALSE, flt |-> "none",
                store |-> ShadowStore(dev)]
    IN  DumpEdges(obj, dev.sink, DumpNodes(obj, dev.sink, CommandLoop(1, buf, dev, st0)))

\* A skipCall that keeps only the last answer: C13 tells it from OrSkip
OrSkip_Assign(skipCall, answer) == answer

\* skipCall |= answer
OrSkip(skipCall, answer) == skipCall \/ answer

\* skipCall |= submitCmdBuffer(queue, buf): `v` is what the validator left,
\* `contents` the answer to the "Command buffer contents" report
AfterValidation(st, command_buffer, contents, v) ==
    [st EXCEPT !.reps = v.reps,
               !.skipCall = OrSkip(OrSkip(@, contents), v.ret),
               !.flt = v.flt,
               !.store = v.store,
               !.validator = [id |-> v.nextCommandId, subpass |-> v.nextSubpassId,
                              bound |-> [graphicsPipeline |-> v.graphicsPipeline,
                                         computePipeline |-> v.computePipeline,
                                         graphicsBindings |-> v.graphicsBindings,
                                         computeBindings |-> v.computeBindings]],
               !.graphs = Append(@, [command_buffer |-> command_buffer,
                                     memNodes |-> v.memNodes, edges |-> v.edges,
                                     draws |-> v.draws])]

\* The body of the two loops of vkQueueSubmit for pSubmits[i].pCommandBuffers[j]
\* (`cb` = <<i, j, handle>>)
SubmitOne(dev, cb, st) ==
    LET command_buffer == cb[3]
        r1 == LogAbout(st.reps, "DEBUG", "DEBUG", "SYNC_MSG_NONE", "submitted",
                       <<command_buffer, 0>>, dev.sink)
        r2 == LogAbout(r1, "ERROR", "DEBUG", "SYNC_MSG_INVALID_PARAM",
                       "vkQueueSubmit called with unknown pCommandBuffers",
                       <<command_buffer, 0>>, dev.sink)
        r3 == LogAbout(r1, "INFO", "DEBUG", "SYNC_MSG_NONE", "Command buffer contents",
                       <<command_buffer, 0>>, dev.sink)
        s1 == [st EXCEPT !.skipCall = OrSkip(@, Aborted(r1))]
    IN  IF command_buffer \notin DOMAIN st.store.command_buffers
        THEN [s1 EXCEPT !.reps = r2, !.skipCall = OrSkip(@, Aborted(r2))]
        ELSE AfterValidation(s1, command_buffer, Aborted(r3),
                submitCmdBuffer(st.store @@ [sink |-> dev.sink],
                                st.store.command_buffers[command_buffer], st.validator, r3))

\* The two loops run from the last command buffer to the first: C15 tells it
\* from SubmitOrder
RECURSIVE SubmitOrder_Backwards(_, _, _)
SubmitOrder_Backwards(pSubmits, i, j) ==
    IF i > Len(pSubmits) THEN <<>>
    ELSE IF j > Len(pSubmits[i]) THEN SubmitOrder_Backwards(pSubmits, i + 1, 1)
    ELSE SubmitOrder_Backwards(pSubmits, i, j + 1) \o <<(<<i, j, pSubmits[i][j]>>)>>

\* pSubmits[i].pCommandBuffers[j] in the order of the two nested loops
RECURSIVE SubmitOrder(_, _, _)
SubmitOrder(pSubmits, i, j) ==
    IF i > Len(pSubmits) THEN <<>>
    ELSE IF j > Len(pSubmits[i]) THEN SubmitOrder(pSubmits, i + 1, 1)
    ELSE <<(<<i, j, pSubmits[i][j]>>)>> \o SubmitOrder(pSubmits, i, j + 1)

RECURSIVE SubmitLoop(_, _, _, _)
SubmitLoop(n, order, dev, st) ==
    IF n > Len(order) \/ st.flt # "none" THEN st
    ELSE SubmitLoop(n + 1, order, dev, SubmitOne(dev, order[n], st))

\* The end of vkQueueSubmit: `st` is what the loops left
QueueSubmitReturn(st, result) ==
    IF st.flt # "none"
    THEN [reps |-> st.reps, ret |-> "none", fwd |-> FALSE, flt |-> st.flt,
          graphs |-> st.graphs, store |-> st.store]
    ELSE IF st.skipCall
    THEN [reps |-> st.reps, ret |-> "VK_ERROR_VALIDATION_FAILED_EXT", fwd |-> FALSE,
          flt |-> "none", graphs |-> st.graphs, store |-> st.store]
    ELSE [reps |-> st.reps, ret |-> result, fwd |-> TRUE, flt |-> "none",
          graphs |-> st.graphs, store |-> st.store]

\* vkQueueSubmit: pSubmits is the sequence of the pCommandBuffers arrays
QueueSubmit(dev, pSubmits, result) ==
    LET r1 == LOG_DEBUG(<<>>, "vkQueueSubmit", dev.sink)
    IN  IF Aborted(r1)
        THEN [reps |-> r1, ret |-> "VK_ERROR_VALIDATION_FAILED_EXT", fwd |-> FALSE,
              flt |-> "none", graphs |-> <<>>, store |-> ShadowStore(dev)]
        ELSE QueueSubmitReturn(
                SubmitLoop(1, SubmitOrder(pSubmits, 1, 1), dev,
                           [reps |-> r1, skipCall |-> FALSE, flt |-> "none",
                            graphs |-> <<>>, store |-> ShadowStore(dev),
                            validator |-> DefaultCommandId @@ [bound |-> NoBindings]]),
                result)

(***************************************************************************)
(* The intercepted calls as actions.  `faithful` says how the driver below *)
(* hands out handles: a faithful driver never returns a handle the layer   *)
(* still holds a record for; an unfaithful one (the "bug in lower layers"  *)
(* of SYNC_MSG_INTERNAL_ERROR) may return any handle.                      *)
(***************************************************************************)
DriverHandles(handles, live, faithful) == IF faithful THEN handles \ live ELSE handles

vkCreateCommandPool(handles, faithful) ==
    \E h \in DriverHandles(handles, DOMAIN command_pools, faithful),
       result \in DriverResults, sink \in Sinks :
        \E o \in {CreateCommandPool(command_pools, command_buffers, h, result, sink)} :
            /\ ~halted
            /\ sink \subseteq 1..Len(o.reps)
            /\ command_pools' = o.pools
            /\ command_buffers' = o.cbs
            /\ Finish("vkCreateCommandPool", h, <<>>, result, o)
            /\ UNCHANGED <<descVars, memVars, otherVars>>

vkDestroyCommandPool(handles) ==
    \E h \in handles, sink \in Sinks :
        \E o \in {DestroyCommandPool(command_pools, command_buffers, h, sink)} :
            /\ ~halted
            /\ sink \subseteq 1..Len(o.reps)
            /\ command_pools' = o.pools
            /\ command_buffers' = o.cbs
            /\ Finish("vkDestroyCommandPool", h, <<>>,
                      IF h \in DOMAIN command_pools
                      THEN command_pools[h].command_buffers ELSE {}, o)
            /\ UNCHANGED <<descVars, memVars, otherVars>>

vkResetCommandPool(handles) ==
    \E h \in handles, sink \in Sinks :
        \E o \in {ResetCommandPool(command_pools, command_buffers, h, sink)} :
            /\ ~halted
            /\ sink \subseteq 1..Len(o.reps)
            /\ command_pools' = o.pools
            /\ command_buffers' = o.cbs
            /\ Finish("vkResetCommandPool", h, <<>>, <<>>, o)
            /\ UNCHANGED <<descVars, memVars, otherVars>>

vkAllocateCommandBuffers(pools, bufs, faithful) ==
    \E pool \in pools,
       hs \in HandleArrays(DriverHandles(bufs, DOMAIN command_buffers, faithful)),
       result \in DriverResults, sink \in Sinks :
        \E o \in {AllocateCommandBuffers(command_pools, command_buffers, pool, hs,
                                        result, sink)} :
            /\ ~halted
            /\ sink \subseteq 1..Len(o.reps)
            /\ command_pools' = o.pools
            /\ command_buffers' = o.cbs
            /\ Finish("vkAllocateCommandBuffers", pool, hs, result, o)
            /\ UNCHANGED <<descVars, memVars, otherVars>>

vkFreeCommandBuffers(pools, bufs) ==
    \E pool \in pools, hs \in HandleArrays(bufs), sink \in Sinks :
        \E o \in {FreeCommandBuffers(command_pools, command_buffers, pool, hs, sink)} :
            /\ ~halted
            /\ sink \subseteq 1..Len(o.reps)
            /\ command_pools' = o.pools
            /\ command_buffers' = o.cbs
            /\ Finish("vkFreeCommandBuffers", pool, hs, <<>>, o)
            /\ UNCHANGED <<descVars, memVars, otherVars>>

vkBeginCommandBuffer(bufs) ==
    \E h \in bufs, sink \in Sinks :
        \E o \in {BeginCommandBuffer(command_buffers, h, sink)} :
            /\ ~halted
            /\ sink \subseteq 1..Len(o.reps)
            /\ command_buffers' = o.cbs
            /\ Finish("vkBeginCommandBuffer", NoHandle, <<h>>, <<>>, o)
            /\ UNCHANGED <<command_pools, descVars, memVars, otherVars>>

vkEndCommandBuffer(bufs) ==
    \E h \in bufs, sink \in Sinks :
        \E o \in {EndCommandBuffer(command_buffers, h, sink)} :
            /\ ~halted
            /\ sink \subseteq 1..Len(o.reps)
            /\ command_buffers' = o.cbs
            /\ Finish("vkEndCommandBuffer", NoHandle, <<h>>, <<>>, o)
            /\ UNCHANGED <<command_pools, descVars, memVars, otherVars>>

vkResetCommandBuffer(bufs) ==
    \E h \in bufs, sink \in Sinks :
        \E o \in {ResetCommandBuffer(command_buffers, h, sink)} :
            /\ ~halted
            /\ sink \subseteq 1..Len(o.reps)
            /\ command_buffers' = o.cbs
            /\ Finish("vkResetCommandBuffer", NoHandle, <<h>>,
                      IF h \in DOMAIN command_buffers THEN <<command_buffers[h]>>
                      ELSE <<>>, o)
            /\ UNCHANGED <<command_pools, descVars, memVars, otherVars>>

\* A vkCmd* entry point `func` recording `cmd`; a log holds at most MaxLog commands
Cmd(bufs, func, cmd) ==
    \E h \in bufs, sink \in Sinks :
        \E o \in {RecordCommand(command_buffers, h, func, cmd, sink)} :
            /\ ~halted
            /\ sink \subseteq 1..Len(o.reps)
            /\ h \in DOMAIN command_buffers => Len(command_buffers[h].commands) < MaxLog
            /\ command_buffers' = o.cbs
            /\ Finish(func, NoHandle, <<h>>, cmd, o)
            /\ UNCHANGED <<command_pools, descVars, memVars, otherVars>>

vkCmdDraw(bufs) == Cmd(bufs, "vkCmdDraw", [kind |-> "draw"])

vkCmdPipelineBarrier(bufs) == Cmd(bufs, "vkCmdPipelineBarrier", [kind |-> "pipeline_barrier"])

(***************************************************************************)
(* Descriptor calls as actions.  The handle sets and the arrays the        *)
(* application passes are parameters.                                      *)
(***************************************************************************)
\* pCreateInfo->pBindings of a layout: for every binding number up to maxBinding
\* either no declaration or one with a descriptorCount up to maxCount
RECURSIVE BindingArray(_, _, _)
BindingArray(f, b, maxBinding) ==
    IF b > maxBinding THEN <<>>
    ELSE (IF f[b] < 0 THEN <<>>
          ELSE <<[binding |-> b, descriptorType |-> "STORAGE_BUFFER",
                  descriptorCount |-> f[b], stageFlags |-> {"FRAGMENT"}]>>)
         \o BindingArray(f, b + 1, maxBinding)

LayoutBindingArrays(maxBinding, maxCount) ==
    {BindingArray(f, 0, maxBinding) : f \in [0..maxBinding -> (-1)..maxCount]}

\* pDescriptorWrites: one VkWriteDescriptorSet of up to MaxCount buffer descriptors
DescriptorWrites(sets, maxBinding, maxCount) ==
    {<<[dstSet |-> s, dstBinding |-> b, dstArrayElement |-> e,
        descriptorType |-> "STORAGE_BUFFER", descriptorCount |-> n,
        infos |-> [j \in 1..n |-> j]]>> :
        s \in sets, b \in 0..maxBinding, e \in 0..maxCount, n \in 1..MaxCount}

vkCreateDescriptorSetLayout(handles, arrays, faithful) ==
    \E h \in DriverHandles(handles, DOMAIN descriptor_set_layouts, faithful),
       bindings \in arrays, result \in DriverResults, sink \in Sinks :
        \E o \in {CreateDescriptorSetLayout(descriptor_set_layouts, h, bindings,
                                           result, sink)} :
            /\ ~halted
            /\ sink \subseteq 1..Len(o.reps)
            /\ descriptor_set_layouts' = o.layouts
            /\ Finish("vkCreateDescriptorSetLayout", NoHandle, <<h>>, <<bindings, result>>, o)
            /\ UNCHANGED <<cmdVars, descriptor_pools, descriptor_sets, memVars, otherVars>>

vkDestroyDescriptorSetLayout(handles) ==
    \E h \in handles, sink \in Sinks :
        \E o \in {DestroyDescriptorSetLayout(descriptor_set_layouts, h, sink)} :
            /\ ~halted
            /\ sink \subseteq 1..Len(o.reps)
            /\ descriptor_set_layouts' = o.layouts
            /\ Finish("vkDestroyDescriptorSetLayout", NoHandle, <<h>>, <<>>, o)
            /\ UNCHANGED <<cmdVars, descriptor_pools, descriptor_sets, memVars, otherVars>>

vkCreateDescriptorPool(handles, faithful) ==
    \E h \in DriverHandles(handles, DOMAIN descriptor_pools, faithful),
       result \in DriverResults, sink \in Sinks :
        \E o \in {CreateDescriptorPool(descriptor_pools, descriptor_sets, h, result,
                                      sink)} :
            /\ ~halted
            /\ sink \subseteq 1..Len(o.reps)
            /\ descriptor_pools' = o.dpools
            /\ descriptor_sets' = o.dsets
            /\ Finish("vkCreateDescriptorPool", h, <<>>, result, o)
            /\ UNCHANGED <<cmdVars, descriptor_set_layouts, memVars, otherVars>>

vkDestroyDescriptorPool(handles) ==
    \E h \in handles, sink \in Sinks :
        \E o \in {DestroyDescriptorPool(descriptor_pools, descriptor_sets, h, sink)} :
            /\ ~halted
            /\ sink \subseteq 1..Len(o.reps)
            /\ descriptor_pools' = o.dpools
            /\ descriptor_sets' = o.dsets
            /\ Finish("vkDestroyDescriptorPool", h, <<>>,
                      IF h \in DOMAIN descriptor_pools
                      THEN descriptor_pools[h].descriptor_sets ELSE {}, o)
            /\ UNCHANGED <<cmdVars, descriptor_set_layouts, memVars, otherVars>>

vkResetDescriptorPool(handles) ==
    \E h \in handles, sink \in Sinks :
        \E o \in {ResetDescriptorPool(descriptor_pools, descriptor_sets, h, sink)} :
            /\ ~halted
            /\ sink \subseteq 1..Len(o.reps)
            /\ descriptor_pools' = o.dpools
            /\ descriptor_sets' = o.dsets
            /\ Finish("vkResetDescriptorPool", h, <<>>, <<>>, o)
            /\ UNCHANGED <<cmdVars, descriptor_set_layouts, memVars, otherVars>>

vkAllocateDescriptorSets(pools, sets, layouts, faithful) ==
    \E pool \in pools,
       hs \in HandleArrays(DriverHandles(sets, DOMAIN descriptor_sets, faithful)),
       result \in DriverResults, sink \in Sinks :
        \E pSetLayouts \in [1..Len(hs) -> layouts] :
            \E o \in {AllocateDescriptorSets(descriptor_pools, descriptor_sets,
                        descriptor_set_layouts, pool, pSetLayouts, hs, result, sink)} :
                /\ ~halted
                /\ sink \subseteq 1..Len(o.reps)
                /\ descriptor_pools' = o.dpools
                /\ descriptor_sets' = o.dsets
                /\ Finish("vkAllocateDescriptorSets", pool, hs, <<pSetLayouts, result>>, o)
                /\ UNCHANGED <<cmdVars, descriptor_set_layouts, memVars, otherVars>>

vkFreeDescriptorSets(pools, sets) ==
    \E pool \in pools, hs \in HandleArrays(sets), sink \in Sinks :
        \E o \in {FreeDescriptorSets(descriptor_pools, descriptor_sets, pool, hs,
                                    sink)} :
            /\ ~halted
            /\ sink \subseteq 1..Len(o.reps)
            /\ descriptor_pools' = o.dpools
            /\ descriptor_sets' = o.dsets
            /\ Finish("vkFreeDescriptorSets", pool, hs, <<>>, o)
            /\ UNCHANGED <<cmdVars, descriptor_set_layouts, memVars, otherVars>>

\* The record of the call keeps the bindings the destination set had when the
\* call came in
vkUpdateDescriptorSets(sets, maxBinding, maxCount) ==
    \E writes \in DescriptorWrites(sets, maxBinding, maxCount), sink \in Sinks :
        \E o \in {UpdateDescriptorSets(descriptor_sets, writes, sink)} :
            /\ ~halted
            /\ sink \subseteq 1..Len(o.reps)
            /\ descriptor_sets' = o.dsets
            /\ Finish("vkUpdateDescriptorSets", NoHandle, <<writes[1].dstSet>>,
                      <<writes[1],
                        IF writes[1].dstSet \in DOMAIN descriptor_sets
                        THEN descriptor_sets[writes[1].dstSet].bindings
                        ELSE <<>>>>, o)
            /\ UNCHANGED <<cmdVars, descriptor_pools, descriptor_set_layouts, memVars, otherVars>>


(***************************************************************************)
(* Pipelines, memory, buffers, the binding commands and vkQueueSubmit as   *)
(* actions.                                                                *)
(***************************************************************************)
\* vkCreatePipelineLayout with pSetLayouts one of `arrays`
CreatePipelineLayoutOf(handles, arrays, faithful) ==
    \E h \in DriverHandles(handles, DOMAIN pipeline_layouts, faithful),
       setLayouts \in arrays, result \in DriverResults, sink \in Sinks :
        \E o \in {CreatePipelineLayout(pipeline_layouts, h, setLayouts, result, sink)} :
            /\ ~halted
            /\ sink \subseteq 1..Len(o.reps)
            /\ pipeline_layouts' = o.playouts
            /\ Finish("vkCreatePipelineLayout", NoHandle, <<h>>, setLayouts, o)
            /\ UNCHANGED <<cmdVars, descVars, memVars, graphics_pipelines, lockVars, ids>>

vkCreatePipelineLayout(handles, layouts, faithful) ==
    CreatePipelineLayoutOf(handles, HandleArrays(layouts), faithful)

\* createInfoCount = 1
vkCreateGraphicsPipelines(handles, layouts, faithful) ==
    \E h \in DriverHandles(handles, DOMAIN graphics_pipelines, faithful),
       layout \in layouts, result \in DriverResults, sink \in Sinks :
        \E o \in {CreateGraphicsPipelines(graphics_pipelines, <<h>>, <<layout>>, result, sink)} :
            /\ ~halted
            /\ sink \subseteq 1..Len(o.reps)
            /\ graphics_pipelines' = o.pipes
            /\ Finish("vkCreateGraphicsPipelines", NoHandle, <<h>>, <<layout>>, o)
            /\ UNCHANGED <<cmdVars, descVars, memVars, pipeline_layouts, lockVars, ids>>

vkAllocateMemory(handles, faithful) ==
    \E h \in DriverHandles(handles, DOMAIN device_memories, faithful),
       result \in DriverResults, sink \in Sinks :
        \E o \in {AllocateMemory(device_memories, nextMemoryUid, h, result, sink)} :
            /\ ~halted
            /\ sink \subseteq 1..Len(o.reps)
            /\ device_memories' = o.mems
            /\ nextMemoryUid' = o.uid
            /\ Finish("vkAllocateMemory", NoHandle, <<h>>, result, o)
            /\ UNCHANGED <<cmdVars, descVars, buffers, viewVars, otherVars>>

vkCreateBuffer(handles, stack, faithful) ==
    \E h \in DriverHandles(handles, DOMAIN buffers, faithful), memory \in stack,
       result \in DriverResults, sink \in Sinks :
        \E o \in {CreateBuffer(buffers, h, memory, result, sink)} :
            /\ ~halted
            /\ sink \subseteq 1..Len(o.reps)
            /\ buffers' = o.bufs
            /\ Finish("vkCreateBuffer", NoHandle, <<h>>, result, o)
            /\ UNCHANGED <<cmdVars, descVars, device_memories, nextMemoryUid, viewVars,
                           otherVars>>

vkBindBufferMemory(bufs, mems) ==
    \E h \in bufs, memory \in mems, sink \in Sinks :
        \E o \in {BindBufferMemory(buffers, h, memory, 0, sink)} :
            /\ ~halted
            /\ sink \subseteq 1..Len(o.reps)
            /\ buffers' = o.bufs
            /\ Finish("vkBindBufferMemory", NoHandle, <<h>>, memory, o)
            /\ UNCHANGED <<cmdVars, descVars, device_memories, nextMemoryUid, viewVars,
                           otherVars>>

vkFreeMemory(mems) ==
    \E memory \in mems, sink \in Sinks :
        \E o \in {FreeMemory(device_memories, memory, sink)} :
            /\ ~halted
            /\ sink \subseteq 1..Len(o.reps)
            /\ device_memories' = o.mems
            /\ Finish("vkFreeMemory", NoHandle, <<memory>>, <<>>, o)
            /\ UNCHANGED <<cmdVars, descVars, nextMemoryUid, buffers, viewVars, otherVars>>

vkCreateBufferView(handles, bufs, faithful) ==
    \E h \in DriverHandles(handles, DOMAIN buffer_views, faithful), buffer \in bufs,
       result \in DriverResults, sink \in Sinks :
        \E o \in {CreateBufferView(buffer_views, h, buffer, result, sink)} :
            /\ ~halted
            /\ sink \subseteq 1..Len(o.reps)
            /\ buffer_views' = o.views
            /\ Finish("vkCreateBufferView", NoHandle, <<h>>, <<buffer, result>>, o)
            /\ UNCHANGED <<cmdVars, descVars, device_memories, nextMemoryUid, buffers,
                           images, image_views, otherVars>>

vkCreateImage(handles, stack, faithful) ==
    \E h \in DriverHandles(handles, DOMAIN images, faithful), memory \in stack,
       result \in DriverResults, sink \in Sinks :
        \E o \in {CreateImage(images, h, memory, result, sink)} :
            /\ ~halted
            /\ sink \subseteq 1..Len(o.reps)
            /\ images' = o.imgs
            /\ Finish("vkCreateImage", NoHandle, <<h>>, result, o)
            /\ UNCHANGED <<cmdVars, descVars, device_memories, nextMemoryUid, buffers,
                           buffer_views, image_views, otherVars>>

vkBindImageMemory(imgs, mems) ==
    \E h \in imgs, memory \in mems, sink \in Sinks :
        \E o \in {BindImageMemory(images, h, memory, 0, sink)} :
            /\ ~halted
            /\ sink \subseteq 1..Len(o.reps)
            /\ images' = o.imgs
            /\ Finish("vkBindImageMemory", NoHandle, <<h>>, memory, o)
            /\ UNCHANGED <<cmdVars, descVars, device_memories, nextMemoryUid, buffers,
                           buffer_views, image_views, otherVars>>

vkCreateImageView(handles, imgs, faithful) ==
    \E h \in DriverHandles(handles, DOMAIN image_views, faithful), image \in imgs,
       result \in DriverResults, sink \in Sinks :
        \E o \in {CreateImageView(image_views, h, image, result, sink)} :
            /\ ~halted
            /\ sink \subseteq 1..Len(o.reps)
            /\ image_views' = o.views
            /\ Finish("vkCreateImageView", NoHandle, <<h>>, <<image, result>>, o)
            /\ UNCHANGED <<cmdVars, descVars, device_memories, nextMemoryUid, buffers,
                           buffer_views, images, otherVars>>

\* A vkCmd* entry point recording into a log of fewer than maxLog commands
CmdUpTo(bufs, func, cmd, maxLog) ==
    \E h \in bufs, sink \in Sinks :
        \E o \in {RecordCommand(command_buffers, h, func, cmd, sink)} :
            /\ ~halted
            /\ sink \subseteq 1..Len(o.reps)
            /\ h \in DOMAIN command_buffers => Len(command_buffers[h].commands) < maxLog
            /\ command_buffers' = o.cbs
            /\ Finish(func, NoHandle, <<h>>, cmd, o)
            /\ UNCHANGED <<command_pools, descVars, memVars, otherVars>>

vkCmdBindPipeline(bufs, pipes, maxLog) ==
    \E pipeline \in pipes :
        CmdUpTo(bufs, "vkCmdBindPipeline",
                [kind |-> "bind_pipeline", pipelineBindPoint |-> "GRAPHICS",
                 pipeline |-> pipeline], maxLog)

\* descriptorSetCount = 1
vkCmdBindDescriptorSetsAt(bufs, firsts, sets, maxLog) ==
    \E firstSet \in firsts, set \in sets :
        CmdUpTo(bufs, "vkCmdBindDescriptorSets",
                [kind |-> "bind_descriptor_sets", pipelineBindPoint |-> "GRAPHICS",
                 firstSet |-> firstSet, descriptorSets |-> <<set>>], maxLog)

\* firstSet = 0, descriptorSetCount = 1
vkCmdBindDescriptorSets(bufs, sets, maxLog) ==
    vkCmdBindDescriptorSetsAt(bufs, {0}, sets, maxLog)

\* mSyncDevice as submitCmdBuffer reads it, with the sink of this call
SyncDevice(sink) ==
    [command_buffers |-> command_buffers, descriptor_sets |-> descriptor_sets,
     descriptor_set_layouts |-> descriptor_set_layouts,
     graphics_pipelines |-> graphics_pipelines, pipeline_layouts |-> pipeline_layouts,
     buffers |-> buffers, buffer_views |-> buffer_views, images |-> images,
     image_views |-> image_views, device_memories |-> device_memories, sink |-> sink]

\* mSyncDevice as the call leaves it
StoreLeft(store) ==
    /\ command_buffers' = store.command_buffers
    /\ descriptor_sets' = store.descriptor_sets
    /\ descriptor_set_layouts' = store.descriptor_set_layouts
    /\ graphics_pipelines' = store.graphics_pipelines
    /\ pipeline_layouts' = store.pipeline_layouts
    /\ buffers' = store.buffers
    /\ buffer_views' = store.buffer_views
    /\ images' = store.images
    /\ image_views' = store.image_views
    /\ device_memories' = store.device_memories

\* The sinks of a submission: no report, one of the first MaxReports reports
\* or every report answered true
AllReports == 1..MaxAllReports

SubmitSinks == {{}} \cup {{n} : n \in 1..MaxReports} \cup {AllReports}

vkQueueSubmit(submits) ==
    \E pSubmits \in submits, result \in DriverResults, sink \in SubmitSinks :
        \E o \in {QueueSubmit(SyncDevice(sink), pSubmits, result)} :
            /\ ~halted
            /\ sink = AllReports \/ sink \subseteq 1..Len(o.reps)
            /\ Len(o.reps) <= MaxAllReports
            /\ Finish("vkQueueSubmit", NoHandle, pSubmits, o.graphs, o)
            /\ StoreLeft(o.store)
            /\ UNCHANGED <<command_pools, descriptor_pools, nextMemoryUid, lockVars, ids>>

\* pSubmits of a vkQueueSubmit: one VkSubmitInfo with up to MaxCount command
\* buffers, or two with one command buffer each
SubmitInfos(bufs) ==
    {<<hs>> : hs \in HandleArrays(bufs)} \cup {<<(<<a>>), (<<b>>)>> : a, b \in bufs}

\* Submissions of the command buffer of one pool with command buffers the
\* store has no record of; no descriptor set and no pipeline exists
NextSubmit ==
    \/ vkCreateCommandPool(FewHandles, TRUE)
    \/ vkAllocateCommandBuffers(FewHandles, FewHandles, TRUE)
    \/ vkBeginCommandBuffer(FewHandles)
    \/ vkEndCommandBuffer(FewHandles)
    \/ vkCmdDraw(FewHandles)
    \/ vkCmdBindPipeline(FewHandles, FewHandles, MaxLog)
    \/ vkCmdBindDescriptorSets(FewHandles, FewHandles, MaxLog)
    \/ vkQueueSubmit(SubmitInfos(CommandBufferHandles))

SpecSubmit == Init /\ [][NextSubmit]_vars

\* The life of one command buffer's log: recording, the three calls that clear
\* it, and submissions that read it
NextLog ==
    \/ vkCreateCommandPool(FewHandles, TRUE)
    \/ vkAllocateCommandBuffers(FewHandles, FewHandles, TRUE)
    \/ vkFreeCommandBuffers(FewHandles, FewHandles)
    \/ vkBeginCommandBuffer(FewHandles)
    \/ vkEndCommandBuffer(FewHandles)
    \/ vkResetCommandBuffer(FewHandles)
    \/ vkResetCommandPool(FewHandles)
    \/ vkCmdDraw(FewHandles)
    \/ vkCmdPipelineBarrier(FewHandles)
    \/ vkQueueSubmit(SubmitInfos(FewHandles))

SpecLog == Init /\ [][NextLog]_vars

\* An application that gets what it asks for: the sink answers false to every
\* report of the call and the driver succeeds
QuietStep ==
    /\ \A i \in 1..Len(reports') : ~reports'[i].abort
    /\ last'.ret \in {"VK_SUCCESS", "void"}

\* The length of the log of the application's command buffer
LogLen(h) == IF h \in DOMAIN command_buffers THEN Len(command_buffers[h].commands) ELSE -1

\* A barrier between the fragment shader stages of the commands around it
FragmentBarrier ==
    [kind |-> "pipeline_barrier", srcStageMask |-> {"FRAGMENT_SHADER"},
     dstStageMask |-> {"FRAGMENT_SHADER"}]

\* Draws on a storage buffer.  The application creates one object of every
\* kind, one after the other, and records bind pipeline, bind descriptor
\* sets, then draws and barriers; it may submit at any point
NextGraph ==
    \/ vkCreateCommandPool(FewHandles, TRUE) /\ QuietStep
    \/ /\ command_pools # EmptyMap
       /\ vkAllocateCommandBuffers(FewHandles, FewHandles, TRUE) /\ QuietStep
    \/ /\ command_buffers # EmptyMap
       /\ vkCreateDescriptorSetLayout(FewHandles,
                LayoutBindingArrays(MaxPoolBinding, MaxPoolDescCount), TRUE) /\ QuietStep
    \/ /\ descriptor_set_layouts # EmptyMap
       /\ vkCreatePipelineLayout(FewHandles, FewHandles, TRUE) /\ QuietStep
    \/ /\ pipeline_layouts # EmptyMap
       /\ vkCreateGraphicsPipelines(FewHandles, FewHandles, TRUE) /\ QuietStep
    \/ /\ graphics_pipelines # EmptyMap
       /\ vkCreateDescriptorPool(FewHandles, TRUE) /\ QuietStep
    \/ /\ descriptor_pools # EmptyMap
       /\ vkAllocateDescriptorSets(FewHandles, FewHandles, FewHandles, TRUE) /\ QuietStep
    \/ /\ descriptor_sets # EmptyMap
       /\ vkCreateBuffer(FewHandles, Indeterminate(FewHandles), TRUE) /\ QuietStep
    \/ /\ buffers # EmptyMap
       /\ vkAllocateMemory(FewHandles, TRUE) /\ QuietStep
    \/ /\ device_memories # EmptyMap
       /\ vkBindBufferMemory(FewHandles, FewHandles) /\ QuietStep
    \/ /\ descriptor_sets # EmptyMap
       /\ vkUpdateDescriptorSets(FewHandles, MaxPoolBinding, MaxPoolBinding) /\ QuietStep
    \/ vkBeginCommandBuffer(FewHandles) /\ QuietStep
    \/ vkEndCommandBuffer(FewHandles) /\ QuietStep
    \/ /\ \E h \in FewHandles : LogLen(h) = 0
       /\ vkCmdBindPipeline(FewHandles, FewHandles, MaxGraphLog) /\ QuietStep
    \/ /\ \E h \in FewHandles : LogLen(h) = 1
       /\ vkCmdBindDescriptorSets(FewHandles, FewHandles, MaxGraphLog) /\ QuietStep
    \/ /\ \E h \in FewHandles : LogLen(h) >= 2
       /\ CmdUpTo(FewHandles, "vkCmdDraw", [kind |-> "draw"], MaxGraphLog) /\ QuietStep
    \/ /\ \E h \in FewHandles : LogLen(h) >= 3
       /\ CmdUpTo(FewHandles, "vkCmdPipelineBarrier", FragmentBarrier, MaxGraphLog)
       /\ QuietStep
    \/ vkQueueSubmit(SubmitInfos(FewHandles))

SpecGraph == Init /\ [][NextGraph]_vars

\* Draws inside and outside render passes, on a pipeline whose layout has no
\* descriptor set layout.  The application creates its objects one after the
\* other, records bind pipeline and then draws and render pass commands; it
\* may submit at any point
NextSubpass ==
    \/ vkCreateCommandPool(FewHandles, TRUE) /\ QuietStep
    \/ /\ command_pools # EmptyMap
       /\ vkAllocateCommandBuffers(FewHandles, FewHandles, TRUE) /\ QuietStep
    \/ /\ command_buffers # EmptyMap
       /\ CreatePipelineLayoutOf(FewHandles, {<<>>}, TRUE) /\ QuietStep
    \/ /\ pipeline_layouts # EmptyMap
       /\ vkCreateGraphicsPipelines(FewHandles, FewHandles, TRUE) /\ QuietStep
    \/ /\ graphics_pipelines # EmptyMap
       /\ \E h \in FewHandles : LogLen(h) = 0
       /\ vkCmdBindPipeline(FewHandles, FewHandles, MaxGraphLog) /\ QuietStep
    \/ /\ \E h \in FewHandles : LogLen(h) >= 1
       /\ CmdUpTo(FewHandles, "vkCmdDraw", [kind |-> "draw"], MaxGraphLog) /\ QuietStep
    \/ /\ \E h \in FewHandles : LogLen(h) >= 1
       /\ CmdUpTo(FewHandles, "vkCmdBeginRenderPass", [kind |-> "begin_render_pass"],
                  MaxGraphLog)
       /\ QuietStep
    \/ /\ \E h \in FewHandles : LogLen(h) >= 1
       /\ CmdUpTo(FewHandles, "vkCmdNextSubpass", [kind |-> "next_subpass"], MaxGraphLog)
       /\ QuietStep
    \/ /\ \E h \in FewHandles : LogLen(h) >= 1
       /\ CmdUpTo(FewHandles, "vkCmdEndRenderPass", [kind |-> "end_render_pass"],
                  MaxGraphLog)
       /\ QuietStep
    \/ vkQueueSubmit(SubmitInfos(FewHandles))

SpecSubpass == Init /\ [][NextSubpass]_vars

\* Two command buffers submitted together.  The first is recorded as bind
\* pipeline, draw; the others hold any MaxBatchLog commands of the two kinds
FirstBuffer == {1}

OtherBuffers == CommandBufferHandles \ FirstBuffer

\* One batch with every command buffer, or one batch for each, in handle order
BatchSubmits ==
    {<<[i \in CommandBufferHandles |-> i]>>, [i \in CommandBufferHandles |-> <<i>>]}

NextBatch ==
    \/ vkCreateCommandPool(FewHandles, TRUE) /\ QuietStep
    \/ /\ command_pools # EmptyMap
       /\ vkAllocateCommandBuffers(FewHandles, CommandBufferHandles, TRUE) /\ QuietStep
       /\ DOMAIN command_buffers' = CommandBufferHandles
    \/ /\ command_buffers # EmptyMap
       /\ CreatePipelineLayoutOf(FewHandles, {<<>>}, TRUE) /\ QuietStep
    \/ /\ pipeline_layouts # EmptyMap
       /\ vkCreateGraphicsPipelines(FewHandles, FewHandles, TRUE) /\ QuietStep
    \/ /\ graphics_pipelines # EmptyMap
       /\ \E h \in FirstBuffer : LogLen(h) = 0
       /\ vkCmdBindPipeline(FirstBuffer, FewHandles, MaxLog) /\ QuietStep
    \/ /\ \E h \in FirstBuffer : LogLen(h) >= 1
       /\ CmdUpTo(FirstBuffer, "vkCmdDraw", [kind |-> "draw"], MaxLog) /\ QuietStep
    \/ /\ graphics_pipelines # EmptyMap
       /\ vkCmdBindPipeline(OtherBuffers, FewHandles, MaxBatchLog) /\ QuietStep
    \/ /\ graphics_pipelines # EmptyMap
       /\ CmdUpTo(OtherBuffers, "vkCmdDraw", [kind |-> "draw"], MaxBatchLog) /\ QuietStep
    \/ vkQueueSubmit(BatchSubmits)

SpecBatch == Init /\ [][NextBatch]_vars

\* pSetLayouts of a pipeline layout: up to MaxSlots handles, repeats allowed
SlotArrays(layouts) == UNION {[1..n -> layouts] : n \in 1..MaxSlots}

\* Draws on a pipeline whose layout names up to MaxSlots set layouts.  The
\* application creates its objects one after the other, a set layout of any
\* binding numbers up to MaxBinding among them, records bind pipeline and then
\* draws and bind descriptor sets at any firstSet; it may submit at any point
NextSets ==
    \/ vkCreateCommandPool(FewHandles, TRUE) /\ QuietStep
    \/ /\ command_pools # EmptyMap
       /\ vkAllocateCommandBuffers(FewHandles, FewHandles, TRUE) /\ QuietStep
    \/ /\ command_buffers # EmptyMap
       /\ vkCreateDescriptorSetLayout(FewHandles,
                LayoutBindingArrays(MaxBinding, MaxPoolDescCount), TRUE) /\ QuietStep
    \/ /\ descriptor_set_layouts # EmptyMap
       /\ CreatePipelineLayoutOf(FewHandles, SlotArrays(FewHandles), TRUE) /\ QuietStep
    \/ /\ pipeline_layouts # EmptyMap
       /\ vkCreateGraphicsPipelines(FewHandles, FewHandles, TRUE) /\ QuietStep
    \/ /\ graphics_pipelines # EmptyMap
       /\ vkCreateDescriptorPool(FewHandles, TRUE) /\ QuietStep
    \/ /\ descriptor_pools # EmptyMap
       /\ vkAllocateDescriptorSets(FewHandles, FewHandles, FewHandles, TRUE) /\ QuietStep
    \/ /\ descriptor_sets # EmptyMap
       /\ \E h \in FewHandles : LogLen(h) = 0
       /\ vkCmdBindPipeline(FewHandles, FewHandles, MaxSetLog) /\ QuietStep
    \/ /\ \E h \in FewHandles : LogLen(h) >= 1
       /\ vkCmdBindDescriptorSetsAt(FewHandles, 0..(MaxSlots - 1), FewHandles, MaxSetLog)
       /\ QuietStep
    \/ /\ \E h \in FewHandles : LogLen(h) >= 1
       /\ CmdUpTo(FewHandles, "vkCmdDraw", [kind |-> "draw"], MaxSetLog) /\ QuietStep
    \/ vkQueueSubmit(SubmitInfos(FewHandles))

SpecSets == Init /\ [][NextSets]_vars

\* The descriptor types of the runs on accesses: a read-only and a storage
\* type of each of the three cases, and the dynamic storage buffer
AccessTypes ==
    {"SAMPLED_IMAGE", "STORAGE_IMAGE", "UNIFORM_TEXEL_BUFFER", "STORAGE_TEXEL_BUFFER",
     "UNIFORM_BUFFER", "STORAGE_BUFFER", "STORAGE_BUFFER_DYNAMIC"}

StageFlagSets == {{"FRAGMENT"}, {"VERTEX", "FRAGMENT"}}

\* pBindings of a layout with binding 0 only
AccessLayouts ==
    {<<[binding |-> 0, descriptorType |-> t, descriptorCount |-> n, stageFlags |-> f]>> :
        t \in AccessTypes, n \in 1..MaxDescCount, f \in StageFlagSets}

\* pDescriptorWrites: one descriptor of the type the layout of the set declares
\* for binding 0, written to one of its elements
AccessWrites(sets, infos) ==
    {<<[dstSet |-> s, dstBinding |-> 0, dstArrayElement |-> e,
        descriptorType |-> descriptor_set_layouts[descriptor_sets[s].setLayout]
                                .bindings[1].descriptorType,
        descriptorCount |-> 1, infos |-> <<h>>]>> :
        s \in sets \cap DOMAIN descriptor_sets, e \in 0..(MaxDescCount - 1), h \in infos}

vkUpdateDescriptorSetsWith(pDescriptorWrites) ==
    \E writes \in pDescriptorWrites, sink \in Sinks :
        \E o \in {UpdateDescriptorSets(descriptor_sets, writes, sink)} :
            /\ ~halted
            /\ sink \subseteq 1..Len(o.reps)
            /\ descriptor_sets' = o.dsets
            /\ Finish("vkUpdateDescriptorSets", NoHandle, <<writes[1].dstSet>>, writes, o)
            /\ UNCHANGED <<cmdVars, descriptor_pools, descriptor_set_layouts, memVars, otherVars>>

\* Draws on images, texel buffers and buffers.  The application creates one
\* object of every kind, one after the other, then binds memory, frees it and
\* writes descriptors in any order, then records bind pipeline, bind
\* descriptor sets and a draw, and submits
NextAccess ==
    \/ vkCreateCommandPool(FewHandles, TRUE) /\ QuietStep
    \/ /\ command_pools # EmptyMap
       /\ vkAllocateCommandBuffers(FewHandles, FewHandles, TRUE) /\ QuietStep
    \/ /\ command_buffers # EmptyMap
       /\ vkCreateDescriptorSetLayout(FewHandles, AccessLayouts, TRUE) /\ QuietStep
    \/ /\ descriptor_set_layouts # EmptyMap
       /\ vkCreatePipelineLayout(FewHandles, FewHandles, TRUE) /\ QuietStep
    \/ /\ pipeline_layouts # EmptyMap
       /\ vkCreateGraphicsPipelines(FewHandles, FewHandles, TRUE) /\ QuietStep
    \/ /\ graphics_pipelines # EmptyMap
       /\ vkCreateDescriptorPool(FewHandles, TRUE) /\ QuietStep
    \/ /\ descriptor_pools # EmptyMap
       /\ vkAllocateDescriptorSets(FewHandles, FewHandles, FewHandles, TRUE) /\ QuietStep
    \/ /\ descriptor_sets # EmptyMap
       /\ vkCreateBuffer(FewHandles, Indeterminate(FewHandles), TRUE) /\ QuietStep
    \/ /\ buffers # EmptyMap
       /\ vkCreateBufferView(FewHandles, FewHandles, TRUE) /\ QuietStep
    \/ /\ buffer_views # EmptyMap
       /\ vkCreateImage(FewHandles, Indeterminate(FewHandles), TRUE) /\ QuietStep
    \/ /\ images # EmptyMap
       /\ vkCreateImageView(FewHandles, FewHandles, TRUE) /\ QuietStep
    \/ /\ image_views # EmptyMap /\ \E h \in FewHandles : LogLen(h) = 0
       /\ nextMemoryUid < MaxFew
       /\ vkAllocateMemory(FewHandles, TRUE) /\ QuietStep
    \/ /\ image_views # EmptyMap /\ \E h \in FewHandles : LogLen(h) = 0
       /\ vkFreeMemory(FewHandles) /\ QuietStep
    \/ /\ image_views # EmptyMap /\ \E h \in FewHandles : LogLen(h) = 0
       /\ vkBindBufferMemory(FewHandles, FewHandles) /\ QuietStep
    \/ /\ image_views # EmptyMap /\ \E h \in FewHandles : LogLen(h) = 0
       /\ vkBindImageMemory(FewHandles, FewHandles) /\ QuietStep
    \/ /\ image_views # EmptyMap /\ \E h \in FewHandles : LogLen(h) = 0
       /\ vkUpdateDescriptorSetsWith(AccessWrites(FewHandles, FewHandles)) /\ QuietStep
    \/ /\ image_views # EmptyMap
       /\ \E h \in FewHandles : LogLen(h) = 0
       /\ vkCmdBindPipeline(FewHandles, FewHandles, MaxSetLog) /\ QuietStep
    \/ /\ \E h \in FewHandles : LogLen(h) = 1
       /\ vkCmdBindDescriptorSets(FewHandles, FewHandles, MaxSetLog) /\ QuietStep
    \/ /\ \E h \in FewHandles : LogLen(h) = 2
       /\ CmdUpTo(FewHandles, "vkCmdDraw", [kind |-> "draw"], MaxSetLog) /\ QuietStep
    \/ /\ \E h \in FewHandles : LogLen(h) = MaxSetLog
       /\ vkQueueSubmit({<<hs>> : hs \in HandleArrays(FewHandles)})

SpecAccess == Init /\ [][NextAccess]_vars

\* The create and allocate calls, with a driver that succeeds or fails
FailHandles == 1..MaxCount

NextCreate ==
    \/ vkCreateCommandPool(FewHandles, TRUE)
    \/ vkAllocateCommandBuffers(FewHandles, FailHandles, TRUE)
    \/ vkCreateDescriptorSetLayout(FewHandles, {<<>>}, TRUE)
    \/ vkCreateDescriptorPool(FewHandles, TRUE)
    \/ vkAllocateDescriptorSets(FewHandles, FailHandles, FewHandles, TRUE)
    \/ vkAllocateMemory(FailHandles, TRUE)
    \/ vkCreateBuffer(FewHandles, Indeterminate(FewHandles), TRUE)
    \/ vkCreateBufferView(FewHandles, FewHandles, TRUE)

SpecCreate == Init /\ [][NextCreate]_vars

\* Three CommandId values compared pairwise, as std::set<SyncNode> does when it
\* orders the nodes of a submission
InitCommandId ==
    /\ InitDevice
    /\ ids \in [1..3 -> CommandIds]

CompareCommandIds ==
    /\ last.op = "none"
    /\ reports' = <<>>
    /\ last' = Call("CommandId::operator<", NoHandle, <<>>, ids,
                    [i \in 1..3 |-> [j \in 1..3 |-> CommandIdLess(ids[i], ids[j])]],
                    FALSE)
    /\ UNCHANGED <<cmdVars, descVars, memVars, otherVars, fault, halted>>

NextCommandId == CompareCommandIds

SpecCommandId == InitCommandId /\ [][NextCommandId]_vars

(***************************************************************************)
(* Application threads.  A thread inside an intercepted call is at one of  *)
(* these places:                                                           *)
(*   "lock"      the trace report is out, the std::lock_guard on           *)
(*               sync_mutex is about to be constructed                     *)
(*   "body"      inside the scope of the lock_guard, before its accesses   *)
(*   "exit"      inside the scope of the lock_guard, at the return or at   *)
(*               the closing brace that leaves it                          *)
(*   "tail"      a vkCmd* call after get_sync_command_buffer returned the  *)
(*               record's address, before commands.emplace_back            *)
(*   "unlocked"  vkUpdateDescriptorSets after its trace report, before its *)
(*               loop over pDescriptorWrites (it constructs no lock_guard) *)
(* The accesses of one scope are one step; what other threads may do       *)
(* meanwhile is what they may do while the thread is at "body" or "exit".  *)
(***************************************************************************)
ThreadSinks == {{}, {1}, {2}}

ThreadWrites == DescriptorWrites(FewHandles, 0, 0)

ThreadCalls ==
    {[op |-> "vkCreateCommandPool", h |-> p, arg |-> <<>>] : p \in FewHandles}
    \cup {[op |-> f, h |-> p, arg |-> <<b>>] :
            f \in {"vkAllocateCommandBuffers", "vkFreeCommandBuffers"},
            p \in FewHandles, b \in FewHandles}
    \cup {[op |-> "vkCmdDraw", h |-> NoHandle, arg |-> <<b>>] : b \in FewHandles}
    \cup {[op |-> "vkCreateDescriptorPool", h |-> p, arg |-> <<>>] : p \in FewHandles}
    \cup {[op |-> "vkFreeDescriptorSets", h |-> p, arg |-> <<s>>] :
            p \in FewHandles, s \in FewHandles}
    \cup {[op |-> "vkUpdateDescriptorSets", h |-> NoHandle, arg |-> w] : w \in ThreadWrites}
    \cup {[op |-> "vkQueueSubmit", h |-> NoHandle, arg |-> <<(<<b>>)>>] : b \in FewHandles}

\* The maps of the store a call reads or writes
Touches(op) ==
    CASE op \in {"vkCreateCommandPool"} -> {"command_pools"}
      [] op \in {"vkAllocateCommandBuffers", "vkFreeCommandBuffers"} ->
            {"command_pools", "command_buffers"}
      [] op = "vkCmdDraw" -> {"command_buffers"}
      [] op = "vkCreateDescriptorPool" -> {"descriptor_pools"}
      [] op = "vkFreeDescriptorSets" -> {"descriptor_pools", "descriptor_sets"}
      [] op = "vkUpdateDescriptorSets" -> {"descriptor_sets"}
      [] op = "vkQueueSubmit" -> {"command_buffers", "descriptor_sets"}
      [] OTHER -> {}

\* The handler's code inside the scope of its lock_guard (for vkCmd*: the scope
\* of get_sync_command_buffer; for vkUpdateDescriptorSets: its loop), on the
\* store as it is when the thread gets there
CallOutcome(c, sink) ==
    CASE c.op = "vkCreateCommandPool" ->
            CreateCommandPool(command_pools, command_buffers, c.h, "VK_SUCCESS", sink)
      [] c.op = "vkAllocateCommandBuffers" ->
            AllocateCommandBuffers(command_pools, command_buffers, c.h, c.arg,
                                   "VK_SUCCESS", sink)
      [] c.op = "vkFreeCommandBuffers" ->
            FreeCommandBuffers(command_pools, command_buffers, c.h, c.arg, sink)
      [] c.op = "vkCmdDraw" ->
            LET g == get_sync_command_buffer(command_buffers, c.arg[1], c.op, sink)
            IN  [reps |-> g.reps, ptr |-> g.ptr, ret |-> "void", flt |-> "none",
                 fwd |-> g.ptr # "null"]
      [] c.op = "vkCreateDescriptorPool" ->
            CreateDescriptorPool(descriptor_pools, descriptor_sets, c.h, "VK_SUCCESS", sink)
      [] c.op = "vkFreeDescriptorSets" ->
            FreeDescriptorSets(descriptor_pools, descriptor_sets, c.h, c.arg, sink)
      [] c.op = "vkUpdateDescriptorSets" ->
            UpdateDescriptorSets(descriptor_sets, c.arg, sink)
      [] c.op = "vkQueueSubmit" ->
            QueueSubmit(SyncDevice(sink), c.arg, "VK_SUCCESS")

\* What a thread keeps of an outcome until it returns
Outcome(o) ==
    [reps |-> o.reps, ret |-> o.ret, fwd |-> o.fwd, flt |-> o.flt,
     ptr |-> IF "ptr" \in DOMAIN o THEN o.ptr ELSE "null"]

\* The store after the accesses of an outcome
Store(o) ==
    /\ command_pools' = IF "pools" \in DOMAIN o THEN o.pools ELSE command_pools
    /\ command_buffers' = IF "cbs" \in DOMAIN o THEN o.cbs ELSE command_buffers
    /\ descriptor_pools' = IF "dpools" \in DOMAIN o THEN o.dpools ELSE descriptor_pools
    /\ descriptor_sets' = IF "dsets" \in DOMAIN o THEN o.dsets ELSE descriptor_sets
    /\ UNCHANGED <<descriptor_set_layouts, memVars, pipeVars, ids>>

\* The threads inside a scope that touches one of `objects`, other than t
Meanwhile(t, objects) ==
    {u \in Threads \ {t} :
        /\ threads[u].pc \in {"body", "exit", "tail", "unlocked"}
        /\ Touches(threads[u].op) \cap objects # {}}

\* An access of thread t: `locked` tells whether t holds sync_mutex, `with`
\* the threads it is not ordered against
Access(t, op, objects) ==
    [thread |-> t, op |-> op, object |-> objects, locked |-> sync_mutex = t,
     with |-> IF sync_mutex = t
              THEN {u \in Meanwhile(t, objects) : threads[u].pc \in {"tail", "unlocked"}}
              ELSE Meanwhile(t, objects)]

\* Two accesses to the same map, one of them a write, with no lock between
\* them: a data race, after which the outcome kept is one of those possible
Raced(a, o) == IF a.with # {} /\ o.flt = "none" THEN [o EXCEPT !.flt = "data_race"] ELSE o

\* A sink answered true and the handler returned from inside the scope
EarlyReturn(out) == \E i \in DOMAIN out.reps : out.reps[i].abort

\* A scope exit that unlocks by hand at the closing brace only
lock_guard_exit_NotOnReturn(holder, early) == IF early THEN holder ELSE NoThread

\* std::lock_guard<std::mutex>::~lock_guard: runs on every way out of the scope
lock_guard_exit(holder, early) == NoThread

\* The driver hands out no handle that is live or that it is handing out to
\* another thread
Fresh(t, c) ==
    LET live == CASE c.op = "vkCreateCommandPool" -> c.h \in DOMAIN command_pools
                  [] c.op = "vkCreateDescriptorPool" -> c.h \in DOMAIN descriptor_pools
                  [] c.op = "vkAllocateCommandBuffers" -> c.arg[1] \in DOMAIN command_buffers
                  [] OTHER -> FALSE
    IN  /\ ~live
        /\ c.op \in {"vkCreateCommandPool", "vkCreateDescriptorPool",
                     "vkAllocateCommandBuffers"}
           => \A u \in Threads \ {t} : threads[u].op # c.op

\* A log holds at most MaxLog commands
LogRoom(t, c) ==
    c.op = "vkCmdDraw" /\ c.arg[1] \in DOMAIN command_buffers
    => Len(command_buffers[c.arg[1]].commands)
       + Cardinality({u \in Threads \ {t} : threads[u].op = "vkCmdDraw"}) < MaxLog

\* The call comes in and issues its trace report; a sink that answers true to
\* it makes the handler return at once
Enter(t) ==
    \E c \in ThreadCalls, sink \in ThreadSinks :
        /\ ~halted
        /\ threads[t].pc = "idle"
        /\ Fresh(t, c)
        /\ LogRoom(t, c)
        /\ IF Aborted(LOG_DEBUG(<<>>, c.op, sink))
           THEN /\ Finish(c.op, c.h, c.arg, <<>>, Outcome(CallOutcome(c, sink)))
                /\ UNCHANGED <<cmdVars, descVars, memVars, otherVars>>
           ELSE /\ threads' = [threads EXCEPT ![t] =
                        [pc |-> IF c.op = "vkUpdateDescriptorSets" THEN "unlocked" ELSE "lock",
                         op |-> c.op, h |-> c.h, arg |-> c.arg, sink |-> sink,
                         out |-> NoOutcome]]
                /\ UNCHANGED <<cmdVars, descVars, memVars, pipeVars, ids, sync_mutex, g_layer_map_mutex,
                               access, reports, last, fault, halted>>

\* std::lock_guard<std::mutex> lock(device_data->sync_mutex)
Acquire(t) ==
    /\ ~halted
    /\ threads[t].pc = "lock"
    /\ sync_mutex = NoThread
    /\ sync_mutex' = t
    /\ threads' = [threads EXCEPT ![t].pc = "body"]
    /\ UNCHANGED <<cmdVars, descVars, memVars, pipeVars, ids, access, reports, last,
                   fault, halted, g_layer_map_mutex>>

\* The accesses inside the scope of the lock_guard
Body(t) ==
    /\ threads[t].pc = "body"
    /\ \E c \in {threads[t]} :
            \E a \in {Access(t, c.op, Touches(c.op))}, o \in {CallOutcome(c, c.sink)} :
                /\ ~halted
                /\ Store(o)
                /\ access' = a
                /\ threads' = [threads EXCEPT ![t].pc = "exit", ![t].out = Raced(a, Outcome(o))]
                /\ UNCHANGED <<sync_mutex, g_layer_map_mutex, reports, last, fault, halted>>

\* The way out of the scope: the handler returns, or (a vkCmd* call whose
\* get_sync_command_buffer returned an address) goes on to its emplace_back
ScopeExit(t) ==
    \E c \in {threads[t]} :
        /\ ~halted
        /\ c.pc = "exit"
        /\ sync_mutex' = lock_guard_exit(sync_mutex, EarlyReturn(c.out))
        /\ IF c.op = "vkCmdDraw" /\ c.out.ptr # "null"
           THEN /\ threads' = [threads EXCEPT ![t].pc = "tail"]
                /\ UNCHANGED <<reports, last, fault, halted>>
           ELSE /\ threads' = [threads EXCEPT ![t] = IdleThread]
                /\ Finish(c.op, c.h, c.arg, <<>>, c.out)
        /\ UNCHANGED <<cmdVars, descVars, memVars, pipeVars, ids, access, g_layer_map_mutex>>

\* buf->commands.emplace_back(...) through the address get_sync_command_buffer
\* returned: of the end() iterator, of a record freed since, or of the record
EmplaceBack(t) ==
    /\ threads[t].pc = "tail"
    /\ \E c \in {threads[t]} :
            \E a \in {Access(t, c.op, {"command_buffers"})},
               cmd \in {[kind |-> "draw"]}, known \in {c.arg[1] \in DOMAIN command_buffers} :
                /\ ~halted
                /\ command_buffers' =
                        IF c.out.ptr = "record" /\ known
                        THEN RecordCommand(command_buffers, c.arg[1], c.op, cmd, c.sink).cbs
                        ELSE command_buffers
                /\ access' = a
                /\ threads' = [threads EXCEPT ![t] = IdleThread]
                /\ Finish(c.op, c.h, c.arg, cmd,
                          IF c.out.ptr = "end" THEN [c.out EXCEPT !.flt = "end_deref"]
                          ELSE IF ~known THEN [c.out EXCEPT !.flt = "dangling"]
                          ELSE Raced(a, c.out))
                /\ UNCHANGED <<command_pools, descVars, memVars, pipeVars, ids, sync_mutex,
                               g_layer_map_mutex>>

\* The loop of vkUpdateDescriptorSets
Unlocked(t) ==
    /\ threads[t].pc = "unlocked"
    /\ \E c \in {threads[t]} :
            \E a \in {Access(t, c.op, Touches(c.op))}, o \in {CallOutcome(c, c.sink)} :
                /\ ~halted
                /\ Store(o)
                /\ access' = a
                /\ threads' = [threads EXCEPT ![t] = IdleThread]
                /\ Finish(c.op, c.h, c.arg, <<>>, Raced(a, Outcome(o)))
                /\ UNCHANGED <<sync_mutex, g_layer_map_mutex>>

NextThreads ==
    \E t \in Threads :
        \/ Enter(t)
        \/ Acquire(t)
        \/ Body(t)
        \/ ScopeExit(t)
        \/ EmplaceBack(t)
        \/ Unlocked(t)

SpecThreads == Init /\ [][NextThreads]_vars

(***************************************************************************)
(* The registry lookup in front of every intercepted call.  Before its     *)
(* trace report a handler calls get_layer_device_data, which constructs a  *)
(* lock_guard on g_layer_map_mutex, looks the dispatch key up and returns  *)
(* from inside the scope.  A thread is then at one of                      *)
(*   "registry_lock"        about to construct that lock_guard             *)
(*   "registry"             inside its scope                               *)
(*   "registry_lock_again"  a second scope on g_layer_map_mutex is about   *)
(*   "registry_again"       to be entered / has been entered: the lookup   *)
(*                          of get_sync_command_buffer in a vkCmd* call,   *)
(*                          the insertion of vkCreateDevice                *)
(***************************************************************************)
LockCalls ==
    {[op |-> "vkCreateCommandPool", h |-> 1, arg |-> <<>>],
     [op |-> "vkAllocateCommandBuffers", h |-> 1, arg |-> <<1>>],
     [op |-> "vkCmdDraw", h |-> NoHandle, arg |-> <<1>>],
     [op |-> "vkQueueSubmit", h |-> NoHandle, arg |-> <<(<<1>>)>>],
     [op |-> "vkCreateDevice", h |-> NoHandle, arg |-> <<>>]}

\* The scopes on g_layer_map_mutex a call goes through
RegistryScopes(op) == IF op \in {"vkCmdDraw", "vkCreateDevice"} THEN 2 ELSE 1

\* The call comes in
EnterCall(t) ==
    \E c \in LockCalls, sink \in ThreadSinks :
        /\ ~halted
        /\ threads[t].pc = "idle"
        /\ Fresh(t, c)
        /\ LogRoom(t, c)
        /\ threads' = [threads EXCEPT ![t] =
                [pc |-> "registry_lock", op |-> c.op, h |-> c.h, arg |-> c.arg,
                 sink |-> sink, out |-> NoOutcome]]
        /\ UNCHANGED <<cmdVars, descVars, memVars, pipeVars, ids, sync_mutex,
                       g_layer_map_mutex, access, reports, last, fault, halted>>

\* std::lock_guard<std::mutex> lock(g_layer_map_mutex)
AcquireMap(t) ==
    /\ ~halted
    /\ threads[t].pc \in {"registry_lock", "registry_lock_again"}
    /\ g_layer_map_mutex = NoThread
    /\ g_layer_map_mutex' = t
    /\ threads' = [threads EXCEPT ![t].pc =
            IF @ = "registry_lock" THEN "registry" ELSE "registry_again"]
    /\ UNCHANGED <<cmdVars, descVars, memVars, pipeVars, ids, sync_mutex, access,
                   reports, last, fault, halted>>

\* The trace report of the handler, once it has its layer_device_data
TraceReport(t, c) ==
    IF Aborted(LOG_DEBUG(<<>>, c.op, c.sink))
    THEN /\ threads' = [threads EXCEPT ![t] = IdleThread]
         /\ Finish(c.op, c.h, c.arg, <<>>, Outcome(CallOutcome(c, c.sink)))
    ELSE /\ threads' = [threads EXCEPT ![t].pc = "lock"]
         /\ UNCHANGED <<reports, last, fault, halted>>

\* The way out of a scope on g_layer_map_mutex: the return of the lookup, or
\* the closing brace after the insertion of vkCreateDevice
MapScopeExit(t) ==
    \E c \in {threads[t]} :
        /\ ~halted
        /\ c.pc \in {"registry", "registry_again"}
        /\ g_layer_map_mutex' =
                lock_guard_exit(g_layer_map_mutex,
                                ~(c.op = "vkCreateDevice" /\ c.pc = "registry_again"))
        /\ IF c.pc = "registry" /\ RegistryScopes(c.op) = 2
           THEN /\ threads' = [threads EXCEPT ![t].pc = "registry_lock_again"]
                /\ UNCHANGED <<reports, last, fault, halted>>
           ELSE IF c.op = "vkCreateDevice"
           THEN /\ threads' = [threads EXCEPT ![t] = IdleThread]
                /\ Finish(c.op, c.h, c.arg, <<>>,
                          [NoOutcome EXCEPT !.ret = "VK_SUCCESS", !.fwd = TRUE])
           ELSE TraceReport(t, c)
        /\ UNCHANGED <<cmdVars, descVars, memVars, pipeVars, ids, sync_mutex, access>>

NextLocks ==
    \E t \in Threads :
        \/ EnterCall(t)
        \/ AcquireMap(t)
        \/ MapScopeExit(t)
        \/ Acquire(t)
        \/ Body(t)
        \/ ScopeExit(t)
        \/ EmplaceBack(t)

SpecLocks == Init /\ [][NextLocks]_vars

(***************************************************************************)
(* The while (true) loop of vkUpdateDescriptorSets, one pass at a time.    *)
(* binding_id is a uint32_t: here it has BindingBits bits, and a layout    *)
(* declares fewer than 2^BindingBits bindings, as bindingCount, of the     *)
(* same width, counts them.  A thread in the loop is at                    *)
(*   "while"       the top of the loop, with binding_id and                *)
(*                 binding_element in its `arg`                            *)
(*   "stored"      after the break that follows the switch                 *)
(*   "undeclared"  after bindings.find(binding_id) == bindings.end()       *)
(* One write is followed from its first pass to its end in each behaviour. *)
(***************************************************************************)
BindingNumbers == 0..(2^BindingBits - 1)

OverflowLayouts ==
    {a \in LayoutBindingArrays(2^BindingBits - 1, MaxOverflowCount) :
        Len(a) < 2^BindingBits}

OverflowThreads == {1}

\* A binding_id that stays: C40 tells it from NextBinding
NextBinding_Same(binding_id) == binding_id

\* binding_id++
NextBinding(binding_id) == (binding_id + 1) % 2^BindingBits

\* One write of one descriptor to a known set comes in: the trace report is
\* out and answered false, binding_id and binding_element are initialised
UpdateEnter(t) ==
    \E dstSet \in DOMAIN descriptor_sets, dstBinding \in BindingNumbers,
       dstArrayElement \in 0..(MaxOverflowCount + 1), sink \in {{}, {2}} :
        /\ ~halted
        /\ threads[t].pc = "idle"
        /\ threads' = [threads EXCEPT ![t] =
                [pc |-> "while", op |-> "vkUpdateDescriptorSets", h |-> dstSet,
                 arg |-> [dstBinding |-> dstBinding, dstArrayElement |-> dstArrayElement,
                          binding_id |-> dstBinding, binding_element |-> dstArrayElement],
                 sink |-> sink, out |-> NoOutcome]]
        /\ UNCHANGED <<cmdVars, descVars, memVars, pipeVars, ids, sync_mutex,
                       g_layer_map_mutex, access, reports, last, fault, halted>>

\* One pass of while (true)
WhileStep(t) ==
    /\ ~halted
    /\ threads[t].pc = "while"
    /\ \E c \in {threads[t]} :
        LET bindings == descriptor_sets[c.h].bindings
            id == c.arg.binding_id
            element == c.arg.binding_element
        IN  IF id \notin DOMAIN bindings
            THEN /\ threads' = [threads EXCEPT ![t].pc = "undeclared"]
                 /\ UNCHANGED descriptor_sets
            ELSE IF element >= Len(bindings[id].descriptors)
            THEN /\ threads' = [threads EXCEPT ![t].arg.binding_id = NextBinding(id),
                                                ![t].arg.binding_element = 0]
                 /\ UNCHANGED descriptor_sets
            ELSE /\ threads' = [threads EXCEPT ![t].pc = "stored"]
                 /\ descriptor_sets' =
                        [descriptor_sets EXCEPT
                            ![c.h].bindings[id].descriptors[element + 1] =
                                StoreDescriptor(@, "STORAGE_BUFFER", 1)]
    /\ UNCHANGED <<cmdVars, descriptor_pools, descriptor_set_layouts, memVars, pipeVars,
                   ids, sync_mutex, g_layer_map_mutex, access, reports, last, fault,
                   halted>>

\* The end of the call: after the error report of an undeclared binding
\* number (return or break), or after the descriptor is stored
UpdateReturn(t) ==
    \E c \in {threads[t]} :
        /\ ~halted
        /\ c.pc \in {"stored", "undeclared"}
        /\ threads' = [threads EXCEPT ![t] = IdleThread]
        /\ \E r1 \in {LOG_DEBUG(<<>>, c.op, c.sink)} :
            \E r2 \in {IF c.pc = "stored" THEN r1
                        ELSE LOG_ERROR(r1, "SYNC_MSG_INVALID_PARAM",
                                "binding number not defined in the descriptor set layout",
                                c.sink)} :
                Finish(c.op, c.h, c.arg, <<>>,
                       [reps |-> r2, ret |-> "void", fwd |-> ~Aborted(r2), flt |-> "none"])
        /\ UNCHANGED <<cmdVars, descVars, memVars, pipeVars, ids, sync_mutex,
                       g_layer_map_mutex, access>>

NextOverflow ==
    \/ /\ descriptor_set_layouts = EmptyMap
       /\ vkCreateDescriptorSetLayout(FewHandles, OverflowLayouts, TRUE) /\ QuietStep
    \/ /\ descriptor_set_layouts # EmptyMap
       /\ vkCreateDescriptorPool(FewHandles, TRUE) /\ QuietStep
    \/ /\ descriptor_pools # EmptyMap
       /\ vkAllocateDescriptorSets(FewHandles, FewHandles, FewHandles, TRUE) /\ QuietStep
    \/ /\ last.op # "vkUpdateDescriptorSets"
       /\ \E t \in OverflowThreads : UpdateEnter(t)
    \/ \E t \in OverflowThreads : WhileStep(t)
    \/ \E t \in OverflowThreads : UpdateReturn(t)

SpecOverflow == Init /\ [][NextOverflow]_vars

\* A thread inside the loop keeps running: nothing in the loop waits
SpecOverflowFair == SpecOverflow /\ \A t \in OverflowThreads : WF_vars(WhileStep(t))

(***************************************************************************)
(* Specifications                                                          *)
(***************************************************************************)
\* Command pools and the command buffers allocated from them
NextCmdPool ==
    \/ vkCreateCommandPool(CommandPoolHandles, TRUE)
    \/ vkDestroyCommandPool(CommandPoolHandles)
    \/ vkResetCommandPool(CommandPoolHandles)
    \/ vkAllocateCommandBuffers(CommandPoolHandles, CommandBufferHandles, TRUE)
    \/ vkFreeCommandBuffers(CommandPoolHandles, CommandBufferHandles)

SpecCmdPool == Init /\ [][NextCmdPool]_vars

\* Command pools, command buffers and command recording
NextCmd ==
    \/ vkCreateCommandPool(CommandPoolHandles, TRUE)
    \/ vkDestroyCommandPool(CommandPoolHandles)
    \/ vkResetCommandPool(CommandPoolHandles)
    \/ vkAllocateCommandBuffers(CommandPoolHandles, CommandBufferHandles, TRUE)
    \/ vkFreeCommandBuffers(CommandPoolHandles, CommandBufferHandles)
    \/ vkBeginCommandBuffer(CommandBufferHandles)
    \/ vkEndCommandBuffer(CommandBufferHandles)
    \/ vkResetCommandBuffer(CommandBufferHandles)
    \/ vkCmdDraw(CommandBufferHandles)
    \/ vkCmdPipelineBarrier(CommandBufferHandles)

SpecCmd == Init /\ [][NextCmd]_vars

\* Descriptor set layouts, descriptor pools and the sets allocated from them
NextDescPool ==
    \/ vkCreateDescriptorSetLayout(DescriptorSetLayoutHandles,
                                   LayoutBindingArrays(MaxPoolBinding, MaxPoolDescCount),
                                   TRUE)
    \/ vkDestroyDescriptorSetLayout(DescriptorSetLayoutHandles)
    \/ vkCreateDescriptorPool(DescriptorPoolHandles, TRUE)
    \/ vkDestroyDescriptorPool(DescriptorPoolHandles)
    \/ vkResetDescriptorPool(DescriptorPoolHandles)
    \/ vkAllocateDescriptorSets(DescriptorPoolHandles, DescriptorSetHandles,
                                DescriptorSetLayoutHandles, TRUE)
    \/ vkFreeDescriptorSets(DescriptorPoolHandles, DescriptorSetHandles)

SpecDescPool == Init /\ [][NextDescPool]_vars

\* Descriptor updates on the sets of one pool
NextUpdate ==
    \/ vkCreateDescriptorSetLayout(DescriptorSetLayoutHandles,
                                   LayoutBindingArrays(MaxBinding, MaxDescCount), TRUE)
    \/ vkCreateDescriptorPool(FewHandles, TRUE)
    \/ vkAllocateDescriptorSets(FewHandles, FewHandles, DescriptorSetLayoutHandles, TRUE)
    \/ vkUpdateDescriptorSets(DescriptorSetHandles, MaxBinding, MaxDescCount)

SpecUpdate == Init /\ [][NextUpdate]_vars

\* Both kinds of pool, their destruction, and calls that look a child up
NextDestroy ==
    \/ vkCreateCommandPool(FewHandles, TRUE)
    \/ vkAllocateCommandBuffers(FewHandles, CommandBufferHandles, TRUE)
    \/ vkDestroyCommandPool(FewHandles)
    \/ vkBeginCommandBuffer(CommandBufferHandles)
    \/ vkCreateDescriptorSetLayout(DescriptorSetLayoutHandles,
                                   LayoutBindingArrays(MaxPoolBinding, MaxPoolDescCount),
                                   TRUE)
    \/ vkCreateDescriptorPool(FewHandles, TRUE)
    \/ vkAllocateDescriptorSets(FewHandles, DescriptorSetHandles,
                                DescriptorSetLayoutHandles, TRUE)
    \/ vkResetDescriptorPool(FewHandles)
    \/ vkDestroyDescriptorPool(FewHandles)
    \/ vkUpdateDescriptorSets(DescriptorSetHandles, MaxPoolBinding, MaxPoolDescCount)

SpecDestroy == Init /\ [][NextDestroy]_vars

\* Command pools over a driver that may hand out a handle twice
NextDup ==
    \/ vkCreateCommandPool(CommandPoolHandles, FALSE)
    \/ vkDestroyCommandPool(CommandPoolHandles)
    \/ vkAllocateCommandBuffers(CommandPoolHandles, CommandBufferHandles, FALSE)
    \/ vkFreeCommandBuffers(CommandPoolHandles, CommandBufferHandles)

SpecDup == Init /\ [][NextDup]_vars

(***************************************************************************)
(* Properties                                                              *)
(***************************************************************************)
\* the call got past its trace report: the sink did not abort it there
PassedTrace(reps) == Len(reps) >= 1 /\ ~reps[1].abort

\* the call handed an error report with this code and text to the sink
ReportsError(reps, code, msg) ==
    \E k \in 1..Len(reps) :
        reps[k].level = "ERROR" /\ reps[k].code = code /\ reps[k].msg = msg

\* a command buffer in its start state with an empty log
Cleared(cbs, h) ==
    h \in DOMAIN cbs /\ cbs[h].state = "INITIAL" /\ cbs[h].commands = <<>>

\* C1: after a vkResetCommandBuffer on a known command buffer, or a
\* vkResetCommandPool on the pool it belongs to, that the sink did not abort at
\* the trace report, the buffer's log is empty and its state is INITIAL, whatever
\* they were before.
C1_ResetClears ==
    [][ /\ \A h \in DOMAIN command_buffers :
              (last'.op = "vkResetCommandBuffer" /\ last'.hs = <<h>> /\ last'.fwd)
                  => Cleared(command_buffers', h)
        /\ \A p \in DOMAIN command_pools :
              (last'.op = "vkResetCommandPool" /\ last'.pool = p /\ last'.fwd)
                  => \A h \in DOMAIN command_buffers :
                         command_buffers[h].command_pool = p
                             => Cleared(command_buffers', h) ]_vars

\* a vkResetCommandBuffer went through on an EXECUTABLE buffer with a full log
C1_Witness ==
    /\ last.op = "vkResetCommandBuffer" /\ last.fwd /\ fault = "none"
    /\ Len(last.arg) = 1
    /\ last.arg[1].state = "EXECUTABLE"
    /\ Len(last.arg[1].commands) = MaxLog
    /\ Cleared(command_buffers, last.hs[1])

\* C2: a vkDestroyCommandPool / vkDestroyDescriptorPool on a known pool that the
\* sink did not abort removes the pool's record and the record of every child
\* (the members of the pool's set and the records that name the pool); and a
\* call that looks up a command buffer or descriptor set that has no record (as
\* those children have none until the driver hands their handle out again)
\* reports an unknown-handle error.
C2_DestroyCascades ==
    [][ /\ \A p \in DOMAIN command_pools :
              (last'.op = "vkDestroyCommandPool" /\ last'.pool = p /\ last'.fwd)
                  => /\ p \notin DOMAIN command_pools'
                     /\ \A h \in command_pools[p].command_buffers :
                            h \notin DOMAIN command_buffers'
                     /\ \A h \in DOMAIN command_buffers :
                            command_buffers[h].command_pool = p
                                => h \notin DOMAIN command_buffers'
        /\ \A p \in DOMAIN descriptor_pools :
              (last'.op = "vkDestroyDescriptorPool" /\ last'.pool = p /\ last'.fwd)
                  => /\ p \notin DOMAIN descriptor_pools'
                     /\ \A h \in descriptor_pools[p].descriptor_sets :
                            h \notin DOMAIN descriptor_sets'
                     /\ \A h \in DOMAIN descriptor_sets :
                            descriptor_sets[h].descriptor_pool = p
                                => h \notin DOMAIN descriptor_sets'
        /\ (/\ last'.op = "vkBeginCommandBuffer"
            /\ last'.hs[1] \notin DOMAIN command_buffers
            /\ PassedTrace(reports'))
              => ReportsError(reports', "SYNC_MSG_INVALID_PARAM", "unknown commandBuffer")
        /\ (/\ last'.op = "vkUpdateDescriptorSets"
            /\ last'.hs[1] \notin DOMAIN descriptor_sets
            /\ PassedTrace(reports'))
              => ReportsError(reports', "SYNC_MSG_INVALID_PARAM",
                              "unknown pDescriptorWrites[i].dstSet") ]_vars

\* a descriptor pool with MaxDescSets children was destroyed and no descriptor
\* set is left
C2_Witness ==
    /\ last.op = "vkDestroyDescriptorPool" /\ last.fwd /\ fault = "none"
    /\ Cardinality(last.arg) = MaxDescSets
    /\ last.pool \notin DOMAIN descriptor_pools
    /\ DOMAIN descriptor_sets = {}

\* the live pools that hold command buffer h in their set
CommandBufferOwners(h) ==
    {p \in DOMAIN command_pools : h \in command_pools[p].command_buffers}

\* C3: over a driver that hands out no live handle twice, in every state reached
\* by pool creation, destruction, reset and command buffer allocation and
\* freeing, a handle is a key of command_buffers exactly when it is in the set of
\* exactly one live pool, and that pool is the record's command_pool.
C3_CommandBuffersAgree ==
    \A h \in CommandBufferHandles :
        /\ h \in DOMAIN command_buffers <=> Cardinality(CommandBufferOwners(h)) = 1
        /\ Cardinality(CommandBufferOwners(h)) <= 1
        /\ h \in DOMAIN command_buffers
              => CommandBufferOwners(h) = {command_buffers[h].command_pool}

\* two pools, a command buffer freed from one of them and one left
C3_Witness ==
    /\ last.op = "vkFreeCommandBuffers" /\ last.fwd /\ fault = "none"
    /\ Cardinality(DOMAIN command_pools) = 2
    /\ Cardinality(DOMAIN command_buffers) = 1
    /\ last.hs[1] \notin DOMAIN command_buffers
    /\ \E h \in DOMAIN command_buffers : command_buffers[h].command_pool # last.pool

\* the live pools that hold descriptor set h in their set
DescriptorSetOwners(h) ==
    {p \in DOMAIN descriptor_pools : h \in descriptor_pools[p].descriptor_sets}

\* C4: the descriptor_sets map and the pools' descriptor_sets agree as the
\* command side does, and no assert of a pool operation fails, also after
\* vkResetDescriptorPool.
C4_DescriptorSetsAgree ==
    /\ fault # "assert"
    /\ \A h \in DescriptorSetHandles :
          /\ h \in DOMAIN descriptor_sets <=> Cardinality(DescriptorSetOwners(h)) = 1
          /\ h \in DOMAIN descriptor_sets
                => DescriptorSetOwners(h) = {descriptor_sets[h].descriptor_pool}

\* C5: a command buffer changes state only from INITIAL to RECORDING on
\* vkBeginCommandBuffer, from RECORDING to EXECUTABLE on vkEndCommandBuffer, and
\* to INITIAL on vkResetCommandBuffer or vkResetCommandPool.
C5_StateMachine ==
    [][ \A h \in (DOMAIN command_buffers) \cap (DOMAIN command_buffers') :
            command_buffers'[h].state # command_buffers[h].state
                => \/ /\ last'.op = "vkBeginCommandBuffer"
                      /\ command_buffers[h].state = "INITIAL"
                      /\ command_buffers'[h].state = "RECORDING"
                   \/ /\ last'.op = "vkEndCommandBuffer"
                      /\ command_buffers[h].state = "RECORDING"
                      /\ command_buffers'[h].state = "EXECUTABLE"
                   \/ /\ last'.op \in {"vkResetCommandBuffer", "vkResetCommandPool"}
                      /\ command_buffers'[h].state = "INITIAL" ]_vars

\* C6: a command recorded on a known command buffer that is not RECORDING, and
\* not aborted at the trace report, is reported as an error and leaves the
\* buffer's log as it was.
C6_RecordNeedsRecording ==
    [][ \A h \in DOMAIN command_buffers :
            (/\ last'.op \in {"vkCmdDraw", "vkCmdPipelineBarrier"}
             /\ last'.hs = <<h>>
             /\ command_buffers[h].state # "RECORDING"
             /\ PassedTrace(reports'))
                => /\ \E k \in 1..Len(reports') : reports'[k].level = "ERROR"
                   /\ h \in DOMAIN command_buffers'
                   /\ command_buffers'[h].commands = command_buffers[h].commands ]_vars

\* C7: when the driver succeeds and hands a create or allocate call a handle
\* that already has a record, the call reports an internal error, the record and
\* every pool's child set stay as they were, and the process is not terminated.
C7_DuplicateHandle ==
    [][ /\ (/\ last'.op = "vkCreateCommandPool"
            /\ last'.arg = "VK_SUCCESS" /\ PassedTrace(reports')
            /\ last'.pool \in DOMAIN command_pools)
              => /\ ReportsError(reports', "SYNC_MSG_INTERNAL_ERROR",
                                 "new pool already exists")
                 /\ cmdVars' = cmdVars
                 /\ fault' = "none"
        /\ \A h \in DOMAIN command_buffers :
              (/\ last'.op = "vkAllocateCommandBuffers"
               /\ last'.arg = "VK_SUCCESS" /\ PassedTrace(reports')
               /\ last'.pool \in DOMAIN command_pools
               /\ \E i \in 1..Len(last'.hs) : last'.hs[i] = h)
                 => /\ ReportsError(reports', "SYNC_MSG_INTERNAL_ERROR",
                                    "new buffer already exists")
                    /\ h \in DOMAIN command_buffers'
                    /\ command_buffers'[h] = command_buffers[h]
                    /\ \A p \in DOMAIN command_pools :
                          /\ p \in DOMAIN command_pools'
                          /\ h \in command_pools'[p].command_buffers
                                <=> h \in command_pools[p].command_buffers
                    /\ fault' = "none" ]_vars

\* C8 (for vkDestroyDescriptorSetLayout and vkDestroyDescriptorPool): a destroy
\* call the sink did not abort at the trace report reports an error and leaves
\* the store as it was when the handle has no record, and otherwise removes that
\* record, with the sets allocated from a pool, and nothing else.
C8_DestroyExact ==
    [][ /\ last'.op = "vkDestroyDescriptorSetLayout" /\ PassedTrace(reports')
            => IF last'.hs[1] \notin DOMAIN descriptor_set_layouts
               THEN /\ ReportsError(reports', "SYNC_MSG_INVALID_PARAM",
                                    "unknown descriptorSetLayout")
                    /\ descVars' = descVars
               ELSE /\ descriptor_set_layouts'
                          = MapErase(descriptor_set_layouts, last'.hs[1])
                    /\ UNCHANGED <<descriptor_pools, descriptor_sets>>
        /\ last'.op = "vkDestroyDescriptorPool" /\ PassedTrace(reports')
            => IF last'.pool \notin DOMAIN descriptor_pools
               THEN /\ ReportsError(reports', "SYNC_MSG_INVALID_PARAM",
                                    "unknown descriptorPool")
                    /\ descVars' = descVars
               ELSE /\ descriptor_pools' = MapErase(descriptor_pools, last'.pool)
                    /\ descriptor_sets'
                          = [h \in {x \in DOMAIN descriptor_sets :
                                      descriptor_sets[x].descriptor_pool # last'.pool}
                               |-> descriptor_sets[h]]
                    /\ UNCHANGED descriptor_set_layouts ]_vars

\* C9: when a command buffer call names a handle with no record and the sink
\* answers false to the unknown-handle report, the handler makes no access
\* through the end() iterator of the map.
C9_NoEndAccess ==
    (/\ last.op \in {"vkBeginCommandBuffer", "vkEndCommandBuffer",
                     "vkResetCommandBuffer", "vkCmdDraw", "vkCmdPipelineBarrier"}
     /\ \E k \in 1..Len(reports) :
           /\ reports[k].msg = "unknown commandBuffer"
           /\ ~reports[k].abort)
        => fault = "none"

\* The n slots that follow one another from element e of binding b, going on at
\* element 0 of the next binding number where a binding ends; shorter than n
\* when a binding number that is not declared is reached
RECURSIVE ConsecutiveSlots(_, _, _, _)
ConsecutiveSlots(bindings, b, e, n) ==
    IF n = 0 \/ b \notin DOMAIN bindings THEN <<>>
    ELSE IF e >= Len(bindings[b].descriptors)
    THEN ConsecutiveSlots(bindings, b + 1, 0, n)
    ELSE <<[binding |-> b, element |-> e]>>
         \o ConsecutiveSlots(bindings, b, e + 1, n - 1)

\* C10: a write of n descriptors at (b, e) of a known set, when the n slots
\* exist, stores descriptor k in the k-th of the n consecutive slots and leaves
\* every other slot as it was.
C10_ConsecutiveSlots ==
    (/\ last.op = "vkUpdateDescriptorSets" /\ last.fwd /\ fault = "none"
     /\ last.hs[1] \in DOMAIN descriptor_sets)
        => LET w == last.arg[1]
               before == last.arg[2]
               after == descriptor_sets[w.dstSet].bindings
               slots == ConsecutiveSlots(before, w.dstBinding, w.dstArrayElement,
                                         w.descriptorCount)
           IN  Len(slots) = w.descriptorCount
                  => /\ DOMAIN after = DOMAIN before
                     /\ \A b \in DOMAIN before :
                           \A e \in 1..Len(before[b].descriptors) :
                              after[b].descriptors[e] =
                                 IF \E k \in 1..Len(slots) :
                                       slots[k] = [binding |-> b, element |-> e - 1]
                                 THEN StoreDescriptor(before[b].descriptors[e],
                                         w.descriptorType,
                                         w.infos[CHOOSE k \in 1..Len(slots) :
                                            slots[k] = [binding |-> b,
                                                        element |-> e - 1]])
                                 ELSE before[b].descriptors[e]

\* C20: CommandId's operator< is a strict weak order over all (queueId,
\* subpassId, sequenceId) triples, SUBPASS_NONE included: no id is less than
\* itself, less-than is transitive, and so is being unordered either way.
Less == last.ret

Unordered(i, j) == ~Less[i][j] /\ ~Less[j][i]

C20_StrictWeakOrder ==
    last.op = "CommandId::operator<" =>
        /\ \A i \in 1..3 : ~Less[i][i]
        /\ \A i, j, k \in 1..3 : Less[i][j] /\ Less[j][k] => Less[i][k]
        /\ \A i, j, k \in 1..3 : Unordered(i, j) /\ Unordered(j, k) => Unordered(i, k)

\* a chain a < b < c whose middle element lies outside every subpass while the
\* first lies in subpass 0 of the same queue
C20_Witness ==
    /\ last.op = "CommandId::operator<"
    /\ Less[1][2] /\ Less[2][3] /\ Less[1][3]
    /\ ids[1].queueId = ids[2].queueId
    /\ ids[1].subpassId = 0 /\ ids[2].subpassId = SUBPASS_NONE
    /\ ids[1].sequenceId > ids[2].sequenceId

\* C23 as stated: two CommandIds that differ in queue id or in subpass id are
\* unordered by operator<, neither being less than the other.
SameScope(i, j) ==
    ids[i].queueId = ids[j].queueId /\ ids[i].subpassId = ids[j].subpassId

C23_Incomparable ==
    last.op = "CommandId::operator<" =>
        \A i, j \in 1..3 : ~SameScope(i, j) => Unordered(i, j)

\* C23 amended: operator< orders by queue id first, by subpass id among ids of
\* one queue, and by sequence id among ids of one queue and subpass, so any
\* two ids that differ in a field are ordered one way.
LexLess(a, c) ==
    \/ a.queueId < c.queueId
    \/ a.queueId = c.queueId /\ a.subpassId < c.subpassId
    \/ a.queueId = c.queueId /\ a.subpassId = c.subpassId /\ a.sequenceId < c.sequenceId

C23_Lexicographic ==
    last.op = "CommandId::operator<" =>
        \A i, j \in 1..3 :
            /\ Less[i][j] <=> LexLess(ids[i], ids[j])
            /\ ids[i] # ids[j] => Less[i][j] \/ Less[j][i]

\* the id of queue 0 is less than the id of queue 1 although its subpass and
\* sequence ids are the larger ones
C23_Witness ==
    /\ last.op = "CommandId::operator<"
    /\ ids[1].queueId = 0 /\ ids[2].queueId = 1
    /\ ids[1].subpassId = SUBPASS_NONE /\ ids[2].subpassId = 0
    /\ ids[1].sequenceId > ids[2].sequenceId
    /\ Less[1][2] /\ ~Less[2][1]

(***************************************************************************)
(* vkQueueSubmit                                                           *)
(***************************************************************************)
Submitted == last.op = "vkQueueSubmit" /\ fault = "none"

AnyAbort(reps) == \E i \in 1..Len(reps) : reps[i].abort

\* C13: vkQueueSubmit is passed to the driver exactly when the sink answered
\* true to none of the reports of the call; otherwise it returns
\* VK_ERROR_VALIDATION_FAILED_EXT and the driver is not called.
C13_ForwardIffNoAbort ==
    Submitted =>
        /\ last.fwd <=> ~AnyAbort(reports)
        /\ ~last.fwd => last.ret = "VK_ERROR_VALIDATION_FAILED_EXT"
        /\ last.fwd => last.ret \in DriverResults

\* the sink answered true to the "submitted" report of a command buffer and
\* false to the later reports of the submission, which was not forwarded
C13_Witness ==
    /\ Submitted /\ ~last.fwd /\ Len(reports) >= 4
    /\ reports[2].msg = "submitted" /\ reports[2].abort
    /\ \A i \in 3..Len(reports) : ~reports[i].abort

\* C14: a sink that answers true to reports below the error level only (the
\* trace of the call, "submitted", "Command buffer contents", the dump of a
\* draw) does not keep vkQueueSubmit from the driver.
C14_DumpsNeverSuppress ==
    Submitted /\ (\A i \in 1..Len(reports) : reports[i].abort => reports[i].level # "ERROR")
        => last.fwd

\* the pCommandBuffers arrays of pSubmits one after the other
RECURSIVE Concat(_)
Concat(arrays) == IF arrays = <<>> THEN <<>> ELSE Head(arrays) \o Concat(Tail(arrays))

SubmittedHandles == Concat(last.hs)

IsSubmittedReport(r) == r.msg = "submitted"

\* the number of command buffers whose validation has started by report p
StartedBy(p) == Len(SelectSeq(SubSeq(reports, 1, p), IsSubmittedReport))

\* C15: within one vkQueueSubmit the command buffers are validated in the order
\* pSubmits[0..], pCommandBuffers[0..], one after the other: every report is
\* about the command buffer started last, none about one that is finished or
\* not started; within a command buffer the reports follow the log's order.
C15_SubmissionOrder ==
    Submitted /\ PassedTrace(reports) =>
        /\ StartedBy(Len(reports)) = Len(SubmittedHandles)
        /\ \A p \in 2..Len(reports) :
                /\ StartedBy(p) >= 1
                /\ reports[p].obj[1] = SubmittedHandles[StartedBy(p)]
        /\ \A p, q \in 2..Len(reports) :
                p < q /\ StartedBy(p) = StartedBy(q) => reports[p].obj[2] <= reports[q].obj[2]
        /\ \A p \in 2..Len(reports) :
                reports[p].obj[2] \in 1..MaxLog /\ reports[p].level = "ERROR" =>
                    \A m \in 1..(reports[p].obj[2] - 1) :
                        command_buffers[reports[p].obj[1]].commands[m].kind = "bind_pipeline"

\* two command buffers in two VkSubmitInfo: the second is the recorded one and
\* its validation stops at the second command of its log
C15_Witness ==
    /\ Submitted /\ PassedTrace(reports)
    /\ Len(last.hs) = 2 /\ last.hs[1][1] # last.hs[2][1]
    /\ last.hs[2][1] \in DOMAIN command_buffers
    /\ \E p \in 2..Len(reports) : reports[p].obj = <<last.hs[2][1], 2>>

\* positions of the bind_descriptor_sets commands of a log that the validator
\* reaches: no earlier command ends the validation
ReachedUnknownBinds(buf) ==
    {k \in 1..Len(buf.commands) :
        /\ buf.commands[k].kind = "bind_descriptor_sets"
        /\ buf.commands[k].descriptorSets[1] \notin DOMAIN descriptor_sets
        /\ \A m \in 1..(k - 1) : buf.commands[m].kind = "bind_pipeline"}

\* C18: a submitted log with a bind-descriptor-sets command naming a descriptor
\* set the store has no record of gets an unknown-descriptor-set error report
\* for that command, and the call completes without a fault whatever the sink
\* answers.
C18_UnknownSetReported ==
    last.op = "vkQueueSubmit" /\ PassedTrace(reports) =>
        \A n \in 1..Len(SubmittedHandles) :
            SubmittedHandles[n] \in DOMAIN command_buffers =>
                \A k \in ReachedUnknownBinds(command_buffers[SubmittedHandles[n]]) :
                    /\ fault = "none" /\ ~halted
                    /\ \E p \in 1..Len(reports) :
                            /\ reports[p].level = "ERROR"
                            /\ reports[p].msg = "Draw command called with unknown descriptor set bound"
                            /\ reports[p].obj = <<SubmittedHandles[n], k>>

\* the unknown set is bound by the second command, and the sink answers true
\* to the error report
C18_Witness ==
    /\ last.op = "vkQueueSubmit" /\ PassedTrace(reports)
    /\ \E n \in 1..Len(SubmittedHandles) :
            /\ SubmittedHandles[n] \in DOMAIN command_buffers
            /\ 2 \in ReachedUnknownBinds(command_buffers[SubmittedHandles[n]])
    /\ \E p \in 1..Len(reports) :
            /\ reports[p].msg = "Draw command called with unknown descriptor set bound"
            /\ reports[p].abort

(***************************************************************************)
(* The graph of a submission                                               *)
(***************************************************************************)
\* the kinds of the commands of the application's command buffer, in order
LogKinds(h) == [k \in 1..Len(command_buffers[h].commands) |-> command_buffers[h].commands[k].kind]

\* one command buffer was submitted and validated to the end, every report
\* answered false
ValidatedOnce ==
    /\ Submitted /\ ~AnyAbort(reports) /\ Len(last.arg) = 1
    /\ \A p \in 1..Len(reports) : reports[p].level # "ERROR"

\* the nodes of a graph that are accesses of type `type` to a buffer by the
\* draw with sequence number `seq`
Accesses(graph, type, seq) ==
    {n \in graph.memNodes : n.type = type /\ n.commandId.sequenceId = seq}

\* the nodes reachable from `frontier` over `edges`
RECURSIVE Reachable(_, _)
Reachable(edges, frontier) ==
    LET more == frontier \cup {e.b : e \in {x \in edges : x.a \in frontier}}
    IN  IF more = frontier THEN frontier ELSE Reachable(edges, more)

\* reports that are neither traces nor dumps
RaceReports == {p \in 1..Len(reports) : reports[p].level \notin {"DEBUG", "INFO"}}

\* C16: for a log [draw C1 writing R at S1, barrier with srcStageMask
\* covering S1 and dstStageMask covering S2, draw C2 reading R at S2] the
\* validation finds C1's write ordered before C2's read over the barrier's
\* edges, and reports no race.
C16_BarrierOrders ==
    /\ ValidatedOnce
    /\ LogKinds(last.hs[1][1]) = <<"bind_pipeline", "bind_descriptor_sets", "draw",
                                   "pipeline_barrier", "draw">>
    /\ Accesses(last.arg[1], "MEM_WRITE", 0) # {}
    /\ Accesses(last.arg[1], "MEM_READ", 1) # {}
    => /\ \A w \in Accesses(last.arg[1], "MEM_WRITE", 0) :
            \A r \in Accesses(last.arg[1], "MEM_READ", 1) :
                w.memory = r.memory => r \in Reachable(last.arg[1].edges, {w})
       /\ RaceReports = {}

\* C17: for a log with a draw writing R followed by a draw reading R and no
\* barrier between them the validation reports exactly one race.
C17_OneRace ==
    /\ ValidatedOnce
    /\ LogKinds(last.hs[1][1]) = <<"bind_pipeline", "bind_descriptor_sets", "draw", "draw">>
    /\ \E w \in Accesses(last.arg[1], "MEM_WRITE", 0) :
            \E r \in Accesses(last.arg[1], "MEM_READ", 1) : w.memory = r.memory
    => Cardinality(RaceReports) = 1

\* C19: two runs of submitCmdBuffer on the same log, with the store unchanged
\* and the sink answering alike, build the same memory nodes and the same
\* edges, CommandIds included.
C19_SameGraph ==
    Submitted /\ ~AnyAbort(reports) =>
        \A a, b \in 1..Len(last.arg) :
            last.arg[a].command_buffer = last.arg[b].command_buffer
                => /\ last.arg[a].memNodes = last.arg[b].memNodes
                   /\ last.arg[a].edges = last.arg[b].edges

\* the command buffer was submitted twice in one call; its log draws twice on
\* the storage buffer
C19_Witness ==
    /\ Submitted /\ ~AnyAbort(reports) /\ Len(last.arg) = 2
    /\ Accesses(last.arg[1], "MEM_WRITE", 0) # {}
    /\ Accesses(last.arg[2], "MEM_READ", 1) # {}
    /\ Cardinality(last.arg[2].edges) = 48

\* Threads inside a call of the run on threads
Returned(t) == threads[t].pc = "idle"

\* C11: every read or write of the store or of a command buffer's log, the
\* append of a vkCmd* call and the slot writes of vkUpdateDescriptorSets
\* included, is made by a thread that holds sync_mutex, so no other thread is
\* inside an access to the same map at that time.
C11_AccessUnderLock == access.locked /\ access.with = {}

\* C12: whenever sync_mutex is held, its holder is inside the scope of a
\* lock_guard: a thread that returned from a call, normally or early on a
\* sink's answer, holds no lock, and when no thread is inside such a scope
\* the lock is free for the next call.
C12_LockReleased ==
    \A t \in Threads : sync_mutex = t => threads[t].pc \in {"body", "exit"}

\* vkFreeDescriptorSets returned early from inside the scope of its lock_guard
\* (the sink answered true to the unknown-pool report) and the lock is free
C12_Witness ==
    /\ last.op = "vkFreeDescriptorSets"
    /\ last.ret = "VK_ERROR_VALIDATION_FAILED_EXT"
    /\ Len(reports) = 2
    /\ reports[2].abort
    /\ \A t \in Threads : Returned(t)
    /\ sync_mutex = NoThread

\* The calls that clear a log
ClearOps == {"vkResetCommandBuffer", "vkResetCommandPool", "vkBeginCommandBuffer"}

IsPrefix(a, b) == Len(a) <= Len(b) /\ \A i \in 1..Len(a) : a[i] = b[i]

\* C22: a call other than vkResetCommandBuffer, vkResetCommandPool and
\* vkBeginCommandBuffer leaves every log a prefix of what it is afterwards
\* (the log only grows at its end), and vkQueueSubmit leaves every command
\* buffer as it was.
C22_AppendOnly ==
    [][/\ last'.op \notin ClearOps
          => \A h \in DOMAIN command_buffers \cap DOMAIN command_buffers' :
                IsPrefix(command_buffers[h].commands, command_buffers'[h].commands)
       /\ last'.op = "vkQueueSubmit" => command_buffers' = command_buffers]_vars

\* A vkCmd* call has appended a second, different command to a log
C22_Witness ==
    /\ last.op = "vkCmdPipelineBarrier"
    /\ last.fwd
    /\ \E h \in DOMAIN command_buffers :
        /\ last.hs = <<h>>
        /\ Len(command_buffers[h].commands) = 2
        /\ command_buffers[h].commands[1].kind = "draw"
        /\ command_buffers[h].commands[2].kind = "pipeline_barrier"

(***************************************************************************)
(* The CommandIds of the draws of a submission                             *)
(***************************************************************************)
\* The log of a command buffer of the submission, as the store holds it
LogOf(graph) == command_buffers[graph.command_buffer].commands

\* the positions strictly between a and b of `log` that hold a command of
\* one of `kinds`
Between(log, a, b, kinds) ==
    {k \in 1..Len(log) : a < k /\ k < b /\ log[k].kind \in kinds}

RenderPassKinds == {"begin_render_pass", "next_subpass", "end_render_pass"}

\* the CommandIds that occur in the edges of a graph
EdgeIds(graph) == {e.a.commandId : e \in graph.edges} \cup {e.b.commandId : e \in graph.edges}

\* C24: in one pass over a log the draws get their CommandIds in log order;
\* all carry the queue id of the first; each sequence id is one more than the
\* previous draw's; the subpass id is SUBPASS_NONE before any render pass
\* command and stays what it was from one draw to the next when no render
\* pass command lies between them; these ids are the ones in the graph.
C24_DrawIds ==
    Submitted =>
        \A g \in 1..Len(last.arg) :
            LET d == last.arg[g].draws
                log == LogOf(last.arg[g])
            IN  /\ \A i \in 1..Len(d) :
                    /\ log[d[i].pos].kind = "draw"
                    /\ d[i].id.queueId = d[1].id.queueId
                    /\ Between(log, 0, d[i].pos, RenderPassKinds) = {}
                       => d[i].id.subpassId = SUBPASS_NONE
                /\ \A i \in 2..Len(d) :
                    /\ d[i - 1].pos < d[i].pos
                    /\ Between(log, d[i - 1].pos, d[i].pos, {"draw"}) = {}
                    /\ d[i].id.sequenceId = d[i - 1].id.sequenceId + 1
                    /\ Between(log, d[i - 1].pos, d[i].pos, RenderPassKinds) = {}
                       => d[i].id.subpassId = d[i - 1].id.subpassId
                /\ EdgeIds(last.arg[g]) \subseteq {d[i].id : i \in 1..Len(d)}

\* three draws validated to the end, the first before a render pass began and
\* the other two inside it
C24_Witness ==
    /\ ValidatedOnce
    /\ LogKinds(last.hs[1][1]) = <<"bind_pipeline", "draw", "begin_render_pass", "draw", "draw">>
    /\ Len(last.arg[1].draws) = 3
    /\ last.arg[1].draws[1].id.subpassId = SUBPASS_NONE
    /\ last.arg[1].draws[3].id = [queueId |-> 0, subpassId |-> 0, sequenceId |-> 2]
    /\ Cardinality(EdgeIds(last.arg[1])) = 3

\* C26: a draw that comes after an end of render pass, with no begin of render
\* pass between the two, gets subpass id SUBPASS_NONE.
C26_EndResets ==
    Submitted =>
        \A g \in 1..Len(last.arg) :
            LET d == last.arg[g].draws
                log == LogOf(last.arg[g])
            IN  \A i \in 1..Len(d) :
                    (\E e \in Between(log, 0, d[i].pos, {"end_render_pass"}) :
                        Between(log, e, d[i].pos, {"begin_render_pass"}) = {})
                    => d[i].id.subpassId = SUBPASS_NONE

\* C27: two draws of one render pass with a next subpass between them get
\* different subpass ids.
C27_NextAdvances ==
    Submitted =>
        \A g \in 1..Len(last.arg) :
            LET d == last.arg[g].draws
                log == LogOf(last.arg[g])
            IN  \A i, j \in 1..Len(d) :
                    /\ i < j
                    /\ Between(log, 0, d[i].pos, {"begin_render_pass"}) # {}
                    /\ Between(log, 0, d[i].pos, {"end_render_pass"}) = {}
                    /\ Between(log, d[i].pos, d[j].pos, {"next_subpass"}) # {}
                    /\ Between(log, d[i].pos, d[j].pos,
                               {"begin_render_pass", "end_render_pass"}) = {}
                    => d[i].id.subpassId # d[j].id.subpassId

\* C25: in one vkQueueSubmit no two draws of different command buffers get
\* the same CommandId.
C25_DistinctIds ==
    Submitted =>
        \A g, h \in 1..Len(last.arg) :
            last.arg[g].command_buffer # last.arg[h].command_buffer =>
                \A i \in 1..Len(last.arg[g].draws), j \in 1..Len(last.arg[h].draws) :
                    last.arg[g].draws[i].id # last.arg[h].draws[j].id

\* the reports of the call about the command at position k of buffer h
ReportsAbout(h, k) ==
    {p \in 1..Len(reports) : "obj" \in DOMAIN reports[p] /\ reports[p].obj = <<h, k>>}

\* the first draw of a log and the graphics bind pipeline commands before it
FirstDraw(log) ==
    IF \E k \in 1..Len(log) : log[k].kind = "draw"
    THEN CHOOSE k \in 1..Len(log) :
            log[k].kind = "draw" /\ Between(log, 0, k, {"draw"}) = {}
    ELSE 0

\* C28: a command buffer whose first draw has no graphics bind pipeline
\* command before it in the same log gets the error "no pipeline bound" for
\* that draw and nothing further is validated: no later draw gets an id, no
\* edge is built and no report about a later command is issued. It is so
\* for every command buffer of the submission, whatever came before it.
C28_NoPipelineBound ==
    Submitted =>
        \A g \in 1..Len(last.arg) :
            LET h == last.arg[g].command_buffer
                log == LogOf(last.arg[g])
                k == FirstDraw(log)
            IN  k > 0 /\ Between(log, 0, k, {"bind_pipeline"}) = {} =>
                    /\ \E p \in ReportsAbout(h, k) :
                        /\ reports[p].level = "ERROR"
                        /\ reports[p].msg = "Draw command called with no pipeline bound"
                    /\ \A n \in 1..Len(log) : ReportsAbout(h, n) # {} => n = k
                    /\ Len(last.arg[g].draws) = 1
                    /\ last.arg[g].edges = {} /\ last.arg[g].memNodes = {}

\* the first command buffer binds a pipeline and draws, the second draws,
\* binds and draws again: its first draw is refused and its second not looked at
C28_Witness ==
    /\ Submitted /\ ~AnyAbort(reports) /\ Len(last.arg) = 2
    /\ LogKinds(last.arg[1].command_buffer) = <<"bind_pipeline", "draw">>
    /\ last.arg[1].edges # {}
    /\ LogKinds(last.arg[2].command_buffer) = <<"draw", "bind_pipeline", "draw">>
    /\ last.arg[2].edges = {}
    /\ \E p \in ReportsAbout(last.arg[2].command_buffer, 1) :
            reports[p].msg = "Draw command called with no pipeline bound"

\* the graphics bind descriptor sets commands before position k of `log` that
\* bind slot s
SlotBinds(log, k, s) ==
    {j \in 1..(k - 1) :
        /\ log[j].kind = "bind_descriptor_sets"
        /\ log[j].pipelineBindPoint = "GRAPHICS"
        /\ log[j].firstSet <= s /\ s < log[j].firstSet + Len(log[j].descriptorSets)}

\* the descriptor set the log has bound at slot s when the command at k runs
SlotSet(log, k, s) ==
    IF SlotBinds(log, k, s) = {} THEN NoHandle
    ELSE LET j == CHOOSE j \in SlotBinds(log, k, s) : \A m \in SlotBinds(log, k, s) : m <= j
         IN  log[j].descriptorSets[s - log[j].firstSet + 1]

\* the set layouts of the pipeline the log has bound when the command at k runs
DrawSetLayouts(log, k) ==
    LET j == CHOOSE j \in Between(log, 0, k, {"bind_pipeline"}) :
                Between(log, j, k, {"bind_pipeline"}) = {}
    IN  pipeline_layouts[graphics_pipelines[log[j].pipeline].layout].setLayouts

Unbound(log, k) == {s \in 0..(Len(DrawSetLayouts(log, k)) - 1) : SlotSet(log, k, s) = NoHandle}

Smallest(S) == CHOOSE s \in S : \A t \in S : s <= t

\* the draw at position k is the last command of the buffer the validator
\* looked at: it gave no later draw an id and reported on no later command
StopsAt(graph, k) ==
    /\ graph.draws[Len(graph.draws)].pos = k
    /\ \A n \in 1..Len(LogOf(graph)) : ReportsAbout(graph.command_buffer, n) # {} => n <= k

\* the error reports about the command at k of buffer h that name a set
ErrorsAt(h, k) == {p \in ReportsAbout(h, k) : "at" \in DOMAIN reports[p]}

NamesUnbound(p, i) ==
    /\ reports[p].msg = "Draw command called with no descriptor set bound"
    /\ reports[p].at = <<i>>

C30_MissingBinding ==
    Submitted =>
        \A g \in 1..Len(last.arg) : \A d \in 1..Len(last.arg[g].draws) :
            LET k == last.arg[g].draws[d].pos
                log == LogOf(last.arg[g])
            IN  \A p \in ErrorsAt(last.arg[g].command_buffer, k) :
                    reports[p].msg = "Draw command called with no descriptor bound" =>
                        LET s == reports[p].at[1]
                            b == reports[p].at[2]
                            set == descriptor_sets[SlotSet(log, k, s)]
                            layout == DrawSetLayouts(log, k)[s + 1]
                            declared == descriptor_set_layouts[layout].bindings
                        IN  /\ \E n \in 1..Len(declared) : declared[n].binding = b
                            /\ b \notin DOMAIN set.bindings
                            /\ set.setLayout # layout

\* the declaration of binding 0 in the one set layout of the runs on accesses,
\* and the descriptors of the one set
DeclaredBinding == descriptor_set_layouts[1].bindings[1]

BoundDescriptors == descriptor_sets[1].bindings[0].descriptors

\* the region a descriptor of the declared type stands for
RegionOf(d) ==
    IF DeclaredBinding.descriptorType \in ImageDescriptorTypes
    THEN [type |-> "IMAGE", image |-> image_views[d.imageInfo].image,
          imageSubresourceRange |-> image_views[d.imageInfo].subresourceRange]
    ELSE IF DeclaredBinding.descriptorType \in TexelBufferDescriptorTypes
    THEN [type |-> "BUFFER", buffer |-> buffer_views[d.bufferView].buffer]
    ELSE [type |-> "BUFFER", buffer |-> d.bufferInfo]

\* the pipeline stage of a shader stage flag
StageOfFlag(flag) ==
    CASE flag = "VERTEX" -> "VERTEX_SHADER"
      [] flag = "TESSELLATION_CONTROL" -> "TESSELLATION_CONTROL_SHADER"
      [] flag = "TESSELLATION_EVALUATION" -> "TESSELLATION_EVALUATION_SHADER"
      [] flag = "GEOMETRY" -> "GEOMETRY_SHADER"
      [] flag = "FRAGMENT" -> "FRAGMENT_SHADER"

StorageTypes ==
    {"STORAGE_IMAGE", "STORAGE_TEXEL_BUFFER", "STORAGE_BUFFER", "STORAGE_BUFFER_DYNAMIC"}

\* the nodes of `graph` of one type for one region at one stage of one draw
NodesFor(graph, type, id, stage, region) ==
    {n \in graph.memNodes :
        n.type = type /\ n.commandId = id /\ n.stage = stage /\ n.memory = region}

\* the one draw of the log went through: every report answered false, no error
DrawResolved ==
    /\ ValidatedOnce
    /\ Len(last.arg[1].draws) = 1
    /\ last.arg[1].command_buffer = 1

\* C31: in the graph of a draw that resolved, every descriptor of the binding
\* has, for every shader stage of the binding's stage flags, exactly one
\* MEM_READ node for its region at that stage, and a MEM_WRITE node for the
\* same region and stage exactly if the type is a storage image, storage
\* texel buffer or storage buffer (dynamic or not); there are no other memory
\* nodes, so one storage buffer descriptor on one stage gives two nodes.
C31_ReadAndWriteNodes ==
    DrawResolved =>
        LET g == last.arg[1]
            id == g.draws[1].id
            stages == {StageOfFlag(f) : f \in DeclaredBinding.stageFlags}
            regions == {RegionOf(BoundDescriptors[e]) :
                            e \in 1..DeclaredBinding.descriptorCount}
            storage == DeclaredBinding.descriptorType \in StorageTypes
        IN  /\ \A r \in regions, st \in stages :
                /\ Cardinality(NodesFor(g, "MEM_READ", id, st, r)) = 1
                /\ Cardinality(NodesFor(g, "MEM_WRITE", id, st, r)) = IF storage THEN 1 ELSE 0
            /\ \A n \in g.memNodes :
                /\ n.type \in {"MEM_READ", "MEM_WRITE"}
                /\ n.commandId = id /\ n.stage \in stages /\ n.memory \in regions
            /\ Cardinality(g.memNodes) =
                    Cardinality(regions) * Cardinality(stages) * (IF storage THEN 2 ELSE 1)

\* one dynamic storage buffer descriptor on the fragment stage: one MEM_READ
\* and one MEM_WRITE node
C31_Witness ==
    /\ DrawResolved
    /\ DeclaredBinding.descriptorType = "STORAGE_BUFFER_DYNAMIC"
    /\ DeclaredBinding.descriptorCount = 1
    /\ DeclaredBinding.stageFlags = {"FRAGMENT"}
    /\ Cardinality(last.arg[1].memNodes) = 2

\* C32: every MEM_READ and MEM_WRITE node of a graph has an edge from and an
\* edge to the ACTION_CMD_STAGE node of its CommandId and stage.
C32_TwoWayEdges ==
    Submitted =>
        \A g \in 1..Len(last.arg) : \A n \in last.arg[g].memNodes :
            /\ SyncEdge(StageNode(n.commandId, n.stage), n) \in last.arg[g].edges
            /\ SyncEdge(n, StageNode(n.commandId, n.stage)) \in last.arg[g].edges

\* a path of one or more edges of `edges` leads from a to b
Reaches(edges, a, b) ==
    LET nodes == {e.a : e \in edges} \cup {e.b : e \in edges}
        step(S) == S \cup {e.b : e \in {f \in edges : f.a \in S}}
        RECURSIVE closure(_, _)
        closure(S, k) == IF k = 0 THEN S ELSE closure(step(S), k - 1)
    IN  b \in closure({e.b : e \in {f \in edges : f.a = a}}, Cardinality(nodes))

\* C33: the graph built for a command log has no cycle: no node reaches
\* itself along one or more edges.
C33_Acyclic ==
    Submitted =>
        \A g \in 1..Len(last.arg) : \A e \in last.arg[g].edges :
            ~Reaches(last.arg[g].edges, e.a, e.a)

\* the buffer or image a descriptor of the declared type leads to has no live
\* device memory, or a link on the way to it is not in the store
MissingLink(d) ==
    IF DeclaredBinding.descriptorType \in ImageDescriptorTypes
    THEN \/ d.imageInfo \notin DOMAIN image_views
         \/ image_views[d.imageInfo].image \notin DOMAIN images
         \/ images[image_views[d.imageInfo].image].memory \notin DOMAIN device_memories
    ELSE IF DeclaredBinding.descriptorType \in TexelBufferDescriptorTypes
    THEN \/ d.bufferView \notin DOMAIN buffer_views
         \/ buffer_views[d.bufferView].buffer \notin DOMAIN buffers
         \/ buffers[buffer_views[d.bufferView].buffer].memory \notin DOMAIN device_memories
    ELSE \/ d.bufferInfo \notin DOMAIN buffers
         \/ buffers[d.bufferInfo].memory \notin DOMAIN device_memories

\* the array indexes of the binding whose descriptor has a missing link
MissingAt == {e \in 0..(DeclaredBinding.descriptorCount - 1) : MissingLink(BoundDescriptors[e + 1])}

\* C34: a draw with a descriptor that resolves through a missing link gets
\* an error that names the set, the binding and the array index of the first
\* such descriptor; validation of the command buffer stops there and the graph
\* holds no node of that descriptor.
C34_MissingLink ==
    /\ Submitted /\ Len(last.arg) = 1 /\ Len(last.arg[1].draws) = 1
    /\ last.arg[1].command_buffer = 1 /\ MissingAt # {}
    =>  /\ \E p \in ErrorsAt(1, last.arg[1].draws[1].pos) :
                reports[p].at = <<0, 0, Smallest(MissingAt)>>
        /\ StopsAt(last.arg[1], last.arg[1].draws[1].pos)
        /\ \A n \in last.arg[1].memNodes :
                \E e \in 0..(Smallest(MissingAt) - 1) : n.memory = RegionOf(BoundDescriptors[e + 1])


\* the error reports of the call, issued while a command buffer was being
\* validated, that the sink answered with true
AbortingErrors ==
    {p \in 1..Len(reports) :
        /\ reports[p].level = "ERROR" /\ reports[p].abort
        /\ "obj" \in DOMAIN reports[p] /\ reports[p].obj[2] > 0}

\* C35: once the sink answers true to an error report issued while command
\* buffer j of a vkQueueSubmit is validated, the submission stops there: no
\* later report is about a later command of buffer j, and no later command
\* buffer of the call is started.
C35_StopsSubmission ==
    Submitted =>
        \A p \in AbortingErrors :
            \A q \in (p + 1)..Len(reports) :
                /\ StartedBy(q) = StartedBy(p)
                /\ "obj" \in DOMAIN reports[q] => reports[q].obj[2] <= reports[p].obj[2]


\* C36: every report issued through LOG_ERROR reaches the sink with the error
\* flag, and every report issued through LOG_INFO or LOG_DEBUG reaches it
\* with the information or the debug flag: no error arrives as DEBUG.
C36_ErrorSeverity ==
    \A p \in 1..Len(reports) :
        /\ reports[p].level = "ERROR" => reports[p].flag = "ERROR"
        /\ reports[p].level \in {"INFO", "DEBUG"} => reports[p].flag \in {"INFO", "DEBUG"}


\* the error reports of the call about a command of the log of buffer h
ErrorsAbout(h) ==
    {p \in 1..Len(reports) :
        /\ reports[p].level = "ERROR"
        /\ "obj" \in DOMAIN reports[p] /\ reports[p].obj[1] = h /\ reports[p].obj[2] > 0}

\* C37: a vkQueueSubmit, whether the validation of its command buffers
\* finishes or stops on an error, leaves every map of the store, and with
\* them every command buffer's log and state, as they were.
C37_ReadOnly ==
    [][last'.op = "vkQueueSubmit" =>
            UNCHANGED <<cmdVars, descVars, memVars, pipeVars>>]_vars

\* a submission of a command buffer that binds a descriptor set; its
\* validation drew and stopped on an error about a later draw
C37_Witness ==
    /\ Submitted /\ Len(last.arg) >= 1
    /\ \E g \in 1..Len(last.arg) :
        /\ \E k \in 1..Len(LogOf(last.arg[g])) :
                LogOf(last.arg[g])[k].kind = "bind_descriptor_sets"
        /\ ErrorsAbout(last.arg[g].command_buffer) # {}
        /\ last.arg[g].edges # {}


\* the threads about to construct a lock_guard on one of the two mutexes
WaitsForMap(t) == threads[t].pc \in {"registry_lock", "registry_lock_again"}

WaitsForSync(t) == threads[t].pc = "lock"

\* C38: no thread holds g_layer_map_mutex and sync_mutex at the same time; a
\* thread about to lock either of them holds neither; and the holder of a
\* mutex is inside the scope that unlocks it, so that it can always go on:
\* the two mutexes produce no deadlock.
C38_NoDeadlock ==
    \A t \in Threads :
        /\ ~(g_layer_map_mutex = t /\ sync_mutex = t)
        /\ WaitsForMap(t) \/ WaitsForSync(t) => g_layer_map_mutex # t /\ sync_mutex # t
        /\ g_layer_map_mutex = t => threads[t].pc \in {"registry", "registry_again"}
        /\ sync_mutex = t => threads[t].pc \in {"body", "exit"}

\* one thread is inside a scope of sync_mutex while the other, in its second
\* registry lookup, holds g_layer_map_mutex
C38_Witness ==
    \E t, u \in Threads :
        /\ sync_mutex = t /\ threads[t].pc = "body" /\ threads[t].op = "vkQueueSubmit"
        /\ g_layer_map_mutex = u /\ threads[u].pc = "registry_again"
        /\ threads[u].op = "vkCmdDraw"


\* the create and allocate calls whose record keeps the driver's result
CreateOps ==
    {"vkCreateCommandPool", "vkAllocateCommandBuffers", "vkCreateDescriptorPool",
     "vkAllocateMemory", "vkCreateBuffer"}

CreateOpsWith ==
    {"vkCreateDescriptorSetLayout", "vkAllocateDescriptorSets", "vkCreateBufferView"}

\* the driver failed the call `c`
DriverFailed(c) ==
    \/ c.op \in CreateOps /\ c.arg # "VK_SUCCESS"
    \/ c.op \in CreateOpsWith /\ c.arg[2] # "VK_SUCCESS"

\* C39: a create or allocate call whose driver call fails leaves the store
\* as it was: no record is inserted, no pool's set of children grows and
\* nextMemoryUid does not advance.
C39_FailedCreate ==
    [][DriverFailed(last') => UNCHANGED <<cmdVars, descVars, memVars, pipeVars>>]_vars

\* the driver failed a vkAllocateMemory that came after one that succeeded,
\* while the pool has a command buffer
C39_Witness ==
    /\ last.op = "vkAllocateMemory" /\ DriverFailed(last) /\ last.fwd
    /\ nextMemoryUid = 1 /\ DOMAIN device_memories # {}
    /\ \E h \in DOMAIN command_pools : command_pools[h].command_buffers # {}


\* C40: the overflow loop of vkUpdateDescriptorSets ends for every write on
\* a known set: a thread at the top of the loop gets, after finitely many
\* passes, to the store of the descriptor or to an undeclared binding number.
C40_Terminates ==
    \A t \in OverflowThreads :
        threads[t].pc = "while" ~> threads[t].pc \in {"stored", "undeclared"}

\* the write started past the end of a binding, went over a binding of
\* descriptor count 0 and ended at a binding number that is not declared
C40_Witness ==
    \E t \in OverflowThreads :
        LET c == threads[t]
            bindings == descriptor_sets[c.h].bindings
        IN  /\ c.pc = "undeclared"
            /\ c.arg.dstBinding \in DOMAIN bindings
            /\ c.arg.dstArrayElement >= Len(bindings[c.arg.dstBinding].descriptors)
            /\ c.arg.dstArrayElement > 0
            /\ c.arg.binding_id = c.arg.dstBinding + 2
            /\ Len(bindings[c.arg.dstBinding + 1].descriptors) = 0

====
